---- MODULE Spec2Model ----
(***************************************************************************)
(* The MarkdownV2 engine of telluride: MarkdownString (escape,             *)
(* from_validated_string, push, `+`), the markdown_format! substitution    *)
(* and the validate_markdownv2_format scanner; and its data store: the     *)
(* file names of keys and the in-memory store.                             *)
(*                                                                         *)
(* A string is the sequence of its UTF-8 bytes, so Len is str::len().      *)
(* The length constants are the program's own (4096, 100, 6).              *)
(***************************************************************************)
EXTENDS Integers, Sequences, FiniteSets, TLC

VARIABLES acc, opd, last, crashed, nops, codec, data, guard, task, shadow, reply, fsys, cbs

\* The variables of the markdown engine, and those of the data store.
markdownVars == <<acc, opd, last, crashed, nops>>
inMemVars == <<codec, data, guard, task, shadow, reply>>
storeVars == <<codec, data, guard, task, shadow, reply, fsys, cbs>>
vars == <<acc, opd, last, crashed, nops, codec, data, guard, task, shadow, reply, fsys, cbs>>

(***************************************************************************)
(* Bytes.                                                                  *)
(***************************************************************************)
Excl == 33
Hash == 35
LParen == 40
RParen == 41
Star == 42
Plus == 43
Minus == 45
Dot == 46
Equals == 61
Gt == 62
LBracket == 91
Backslash == 92
RBracket == 93
Underscore == 95
Backtick == 96
LBrace == 123
Pipe == 124
RBrace == 125
Tilde == 126
Newline == 10
LetterA == 97

\* The four UTF-8 bytes of U+1F4B0, the multi-byte character of the tests.
MoneyBag == <<240, 159, 146, 176>>

\* str::is_char_boundary: offset i (0-based) of s starts a character or is
\* the end of s; a byte in 128..191 is a continuation byte.
IsCharBoundary(s, i) ==
    \/ i = 0
    \/ i = Len(s)
    \/ i < Len(s) /\ ~(s[i + 1] \in 128..191)

(***************************************************************************)
(* Bounds of the model.                                                    *)
(***************************************************************************)
\* How far around each length threshold the input lengths are taken.
Window == 1
\* How many nested escape calls are followed before the search gives up.
MaxDepth == 16
\* How many operations one behaviour of the engine performs.
MaxOps == 4
\* The longest template literal, and the most arguments of one call.
MaxTemplateLen == 4
MaxArgs == 2
\* The longest short text given to escape.
MaxTextLen == 3
\* The longest template given to the validator alone (but for the runs).
MaxValLen == 4
\* The longest template and the most arguments of a substitution with every
\* kind of argument.
MaxSubLen == 4
MaxSubArgs == 2
\* The longest literal of the two values that are concatenated.
MaxCatLen == 2
\* The longest key given to encode_key_to_filename.
MaxKeyLen == 3
\* How many calls of the store one behaviour begins.
MaxCalls == 3
\* The longest piece before, between and after the two fences of a template.
MaxPieceLen == 2
\* How many calls one caller makes of a FilesystemYamlStore, one after another.
MaxFsCalls == 3
\* How many calls two callers begin on a FilesystemYamlStore between them.
MaxFsTaskCalls == 2
\* How many buttons one keyboard has.
MaxButtons == 2

(***************************************************************************)
(* Program constants.                                                      *)
(***************************************************************************)
TELEGRAM_MAX_MESSAGE_LENGTH == 4096
\* from_validated_string: "additional space for escaping"
EscapeMargin == 100
TRUNCATION_MARKER == <<Backslash, Dot, Backslash, Dot, Backslash, Dot>>
\* The offset at which from_validated_string cuts an overlong string.
safe_length == TELEGRAM_MAX_MESSAGE_LENGTH - EscapeMargin

\* MarkdownString(String, bool)
MarkdownString(s, t) == [s |-> s, t |-> t]
Default == MarkdownString(<<>>, FALSE)

(***************************************************************************)
(* teloxide::utils::markdown::escape: a backslash before each of the 18    *)
(* MarkdownV2 characters and before each backslash. Computed by halves     *)
(* (the escape of a concatenation is the concatenation of the escapes).    *)
(***************************************************************************)
MarkdownV2Chars ==
    {Underscore, Star, LBracket, RBracket, LParen, RParen, Tilde, Backtick, Gt,
     Hash, Plus, Minus, Equals, Pipe, LBrace, RBrace, Dot, Excl}

EscapedChars == MarkdownV2Chars \cup {Backslash}

RECURSIVE teloxide_escape(_)

\* Mutant: the backslash itself is not escaped.
teloxide_escape_no_backslash(s) ==
    IF Len(s) = 0 THEN <<>>
    ELSE IF Len(s) = 1
         THEN (IF s[1] \in MarkdownV2Chars THEN <<Backslash, s[1]>> ELSE s)
         ELSE LET h == Len(s) \div 2
              IN teloxide_escape(SubSeq(s, 1, h)) \o teloxide_escape(SubSeq(s, h + 1, Len(s)))

\* Mutant: the dot is missing from the list of escaped characters.
teloxide_escape_no_dot(s) ==
    IF Len(s) = 0 THEN <<>>
    ELSE IF Len(s) = 1
         THEN (IF s[1] \in EscapedChars \ {Dot} THEN <<Backslash, s[1]>> ELSE s)
         ELSE LET h == Len(s) \div 2
              IN teloxide_escape(SubSeq(s, 1, h)) \o teloxide_escape(SubSeq(s, h + 1, Len(s)))

teloxide_escape(s) ==
    IF Len(s) = 0 THEN <<>>
    ELSE IF Len(s) = 1
         THEN (IF s[1] \in EscapedChars THEN <<Backslash, s[1]>> ELSE s)
         ELSE LET h == Len(s) \div 2
              IN teloxide_escape(SubSeq(s, 1, h)) \o teloxide_escape(SubSeq(s, h + 1, Len(s)))

(***************************************************************************)
(* MarkdownString::push                                                    *)
(***************************************************************************)
\* Mutant: the guard compares with >= (off by one at the threshold).
push_off_by_one(self, other) ==
    IF self.t THEN self
    ELSE LET combined_length == Len(self.s) + Len(other.s) + Len(TRUNCATION_MARKER)
         IN IF combined_length >= TELEGRAM_MAX_MESSAGE_LENGTH
            THEN IF Len(self.s) + Len(TRUNCATION_MARKER) <= TELEGRAM_MAX_MESSAGE_LENGTH
                 THEN MarkdownString(self.s \o TRUNCATION_MARKER, TRUE)
                 ELSE MarkdownString(self.s, TRUE)
            ELSE MarkdownString(self.s \o other.s, FALSE)

\* Mutant: the addition is appended whatever the lengths.
push_unguarded(self, other) ==
    IF self.t THEN self ELSE MarkdownString(self.s \o other.s, FALSE)

\* Mutant: a truncated receiver is not left alone.
push_no_freeze(self, other) ==
    LET combined_length == Len(self.s) + Len(other.s) + Len(TRUNCATION_MARKER)
    IN IF combined_length > TELEGRAM_MAX_MESSAGE_LENGTH
       THEN IF Len(self.s) + Len(TRUNCATION_MARKER) <= TELEGRAM_MAX_MESSAGE_LENGTH
            THEN MarkdownString(self.s \o TRUNCATION_MARKER, TRUE)
            ELSE MarkdownString(self.s, TRUE)
       ELSE MarkdownString(self.s \o other.s, FALSE)

\* Mutant: the combined length leaves the marker out.
push_marker_uncounted(self, other) ==
    IF self.t THEN self
    ELSE LET combined_length == Len(self.s) + Len(other.s)
         IN IF combined_length > TELEGRAM_MAX_MESSAGE_LENGTH
            THEN IF Len(self.s) + Len(TRUNCATION_MARKER) <= TELEGRAM_MAX_MESSAGE_LENGTH
                 THEN MarkdownString(self.s \o TRUNCATION_MARKER, TRUE)
                 ELSE MarkdownString(self.s, TRUE)
            ELSE MarkdownString(self.s \o other.s, FALSE)

\* Mutant: the flag is set and the marker is never appended.
push_no_marker(self, other) ==
    IF self.t THEN self
    ELSE LET combined_length == Len(self.s) + Len(other.s) + Len(TRUNCATION_MARKER)
         IN IF combined_length > TELEGRAM_MAX_MESSAGE_LENGTH
            THEN MarkdownString(self.s, TRUE)
            ELSE MarkdownString(self.s \o other.s, FALSE)

push(self, other) ==
    IF self.t THEN self
    ELSE LET combined_length == Len(self.s) + Len(other.s) + Len(TRUNCATION_MARKER)
         IN IF combined_length > TELEGRAM_MAX_MESSAGE_LENGTH
            THEN IF Len(self.s) + Len(TRUNCATION_MARKER) <= TELEGRAM_MAX_MESSAGE_LENGTH
                 THEN MarkdownString(self.s \o TRUNCATION_MARKER, TRUE)
                 ELSE MarkdownString(self.s, TRUE)
            ELSE MarkdownString(self.s \o other.s, FALSE)

\* The four impls of Add: the receiver (moved or cloned), then push.
add(self, other) == push(self, other)

(***************************************************************************)
(* MarkdownString::escape and MarkdownString::from_validated_string call   *)
(* each other. A call ends in one of                                       *)
(*   "ok"       it returns the value v;                                    *)
(*   "panic"    s[..safe_length] cuts a character in two;                  *)
(*   "overflow" escape is entered with an input that an enclosing escape   *)
(*              call already has: the recursion repeats and never returns  *)
(*              (the stack overflows);                                     *)
(*   "deep"     MaxDepth nested calls were followed without an end.        *)
(* chain is the sequence of the inputs of the enclosing escape calls.      *)
(***************************************************************************)
Outcome(kind, v) == [kind |-> kind, v |-> v]

InChain(x, chain) == \E i \in 1..Len(chain) : chain[i] = x

RECURSIVE escape_in(_, _), from_validated_string_in(_, _)

\* Mutant: the overlong string is cut and marked, but not escaped.
from_validated_string_unescaped(s, chain) ==
    IF Len(s) > TELEGRAM_MAX_MESSAGE_LENGTH
    THEN IF ~IsCharBoundary(s, safe_length) THEN Outcome("panic", Default)
         ELSE Outcome("ok", MarkdownString(SubSeq(s, 1, safe_length) \o TRUNCATION_MARKER, TRUE))
    ELSE Outcome("ok", MarkdownString(s, FALSE))

\* Mutant: the threshold is the one of push (the ceiling less the marker).
from_validated_string_guarded(s, chain) ==
    IF Len(s) + Len(TRUNCATION_MARKER) > TELEGRAM_MAX_MESSAGE_LENGTH
    THEN IF ~IsCharBoundary(s, safe_length) THEN Outcome("panic", Default)
         ELSE LET e == escape_in(SubSeq(s, 1, safe_length), chain)
                  truncation_marker == MarkdownString(TRUNCATION_MARKER, FALSE)
              IN IF e.kind = "ok"
                 THEN Outcome("ok", MarkdownString(push(e.v, truncation_marker).s, TRUE))
                 ELSE e
    ELSE Outcome("ok", MarkdownString(s, FALSE))

escape_in(input, chain) ==
    IF InChain(input, chain) THEN Outcome("overflow", Default)
    ELSE IF Len(chain) >= MaxDepth THEN Outcome("deep", Default)
    ELSE LET escaped == teloxide_escape(input)
             r == from_validated_string_in(escaped, Append(chain, input))
         IN IF r.kind = "ok" THEN Outcome("ok", push(Default, r.v)) ELSE r

from_validated_string_in(s, chain) ==
    IF Len(s) > TELEGRAM_MAX_MESSAGE_LENGTH
    THEN IF ~IsCharBoundary(s, safe_length) THEN Outcome("panic", Default)
         ELSE LET e == escape_in(SubSeq(s, 1, safe_length), chain)
                  truncation_marker == MarkdownString(TRUNCATION_MARKER, FALSE)
              IN IF e.kind = "ok"
                 THEN Outcome("ok", MarkdownString(push(e.v, truncation_marker).s, TRUE))
                 ELSE e
    ELSE Outcome("ok", MarkdownString(s, FALSE))

escape(input) == escape_in(input, <<>>)
from_validated_string(s) == from_validated_string_in(s, <<>>)

(***************************************************************************)
(* validate_markdownv2_format: one scan over the bytes of the template,    *)
(* with 8-bit counters, and the checks at the end of the scan. It panics   *)
(* (at compile time, in markdown_string!) or returns.                      *)
(***************************************************************************)
\* the values of a u8
U8 == 256

wrapping_add(x) == (x + 1) % U8
wrapping_sub(x) == (x + (U8 - 1)) % U8

\* The locals of the function, and whether an assert! or panic! was hit.
ValidatorStart ==
    [asterisk_count |-> 0, underscore_count |-> 0, backtick_count |-> 0,
     square_bracket_count |-> 0, paren_count |-> 0, tilde_count |-> 0, pipe_count |-> 0,
     in_code |-> FALSE, in_pre |-> FALSE, prev_char |-> 0,
     prev_was_escaping_backslash |-> FALSE, panicked |-> FALSE]

\* Mutant: the arm of '#' is missing.
ReservedChars_no_hash == {Excl, Dot, Minus, Plus, Equals, Gt}

\* The reserved characters that must be escaped outside code.
ReservedChars == {Excl, Dot, Minus, Plus, Equals, Gt, Hash}

\* The match without the check for three backticks: every backtick flips
\* the inline-code context.
validate_match_no_fence(bytes, i, st) ==
    LET current_char == bytes[i]
        outside == ~st.in_code /\ ~st.in_pre
    IN IF current_char = Star
       THEN [st EXCEPT !.asterisk_count = wrapping_add(@)]
       ELSE IF current_char = Underscore
       THEN [st EXCEPT !.underscore_count = wrapping_add(@)]
       ELSE IF current_char = Tilde
       THEN [st EXCEPT !.tilde_count = wrapping_add(@)]
       ELSE IF current_char = Pipe
       THEN [st EXCEPT !.pipe_count = wrapping_add(@)]
       ELSE IF current_char = Backtick
       THEN [st EXCEPT !.backtick_count = wrapping_add(@), !.in_code = ~@]
       ELSE IF current_char = LBracket
       THEN [st EXCEPT !.square_bracket_count = wrapping_add(@)]
       ELSE IF current_char = RBracket
       THEN IF st.square_bracket_count > 0
            THEN [st EXCEPT !.square_bracket_count = wrapping_sub(@)]
            ELSE [st EXCEPT !.panicked = TRUE]
       ELSE IF current_char = LParen
       THEN IF st.prev_char = RBracket
            THEN [st EXCEPT !.paren_count = wrapping_add(@)]
            ELSE st
       ELSE IF current_char = RParen
       THEN IF st.paren_count > 0
            THEN [st EXCEPT !.paren_count = wrapping_sub(@)]
            ELSE st
       ELSE IF current_char \in ReservedChars
       THEN IF outside THEN [st EXCEPT !.panicked = TRUE] ELSE st
       ELSE IF current_char = LBrace
       THEN LET is_format_placeholder == i + 1 <= Len(bytes) /\ bytes[i + 1] = RBrace
            IN IF outside /\ ~is_format_placeholder
               THEN [st EXCEPT !.panicked = TRUE]
               ELSE st
       ELSE IF current_char = RBrace
       THEN LET is_format_placeholder == i > 1 /\ bytes[i - 1] = LBrace
            IN IF outside /\ ~is_format_placeholder
               THEN [st EXCEPT !.panicked = TRUE]
               ELSE st
       ELSE st

\* The match on an unescaped current_char, at the 1-based position i.
validate_match(bytes, i, st) ==
    LET current_char == bytes[i]
        outside == ~st.in_code /\ ~st.in_pre
    IN IF current_char = Star
       THEN [st EXCEPT !.asterisk_count = wrapping_add(@)]
       ELSE IF current_char = Underscore
       THEN [st EXCEPT !.underscore_count = wrapping_add(@)]
       ELSE IF current_char = Tilde
       THEN [st EXCEPT !.tilde_count = wrapping_add(@)]
       ELSE IF current_char = Pipe
       THEN [st EXCEPT !.pipe_count = wrapping_add(@)]
       ELSE IF current_char = Backtick
       THEN IF /\ i + 2 <= Len(bytes)
               /\ bytes[i + 1] = Backtick
               /\ bytes[i + 2] = Backtick
            THEN [st EXCEPT !.backtick_count = wrapping_add(@), !.in_pre = ~@]
            ELSE [st EXCEPT !.backtick_count = wrapping_add(@), !.in_code = ~@]
       ELSE IF current_char = LBracket
       THEN [st EXCEPT !.square_bracket_count = wrapping_add(@)]
       ELSE IF current_char = RBracket
       THEN IF st.square_bracket_count > 0
            THEN [st EXCEPT !.square_bracket_count = wrapping_sub(@)]
            ELSE [st EXCEPT !.panicked = TRUE]
       ELSE IF current_char = LParen
       THEN IF st.prev_char = RBracket
            THEN [st EXCEPT !.paren_count = wrapping_add(@)]
            ELSE st
       ELSE IF current_char = RParen
       THEN IF st.paren_count > 0
            THEN [st EXCEPT !.paren_count = wrapping_sub(@)]
            ELSE st
       ELSE IF current_char \in ReservedChars
       THEN IF outside THEN [st EXCEPT !.panicked = TRUE] ELSE st
       ELSE IF current_char = LBrace
       THEN LET is_format_placeholder == i + 1 <= Len(bytes) /\ bytes[i + 1] = RBrace
            IN IF outside /\ ~is_format_placeholder
               THEN [st EXCEPT !.panicked = TRUE]
               ELSE st
       ELSE IF current_char = RBrace
       THEN LET is_format_placeholder == i > 1 /\ bytes[i - 1] = LBrace
            IN IF outside /\ ~is_format_placeholder
               THEN [st EXCEPT !.panicked = TRUE]
               ELSE st
       ELSE st

\* One turn of the loop in which every character after a backslash counts
\* as escaped, whether that backslash was itself escaped or not.
validate_step_any_backslash(bytes, i, st) ==
    LET current_char == bytes[i]
        is_escaped == st.prev_char = Backslash
        matched == IF is_escaped THEN st ELSE validate_match(bytes, i, st)
    IN [matched EXCEPT
           !.prev_was_escaping_backslash = (current_char = Backslash /\ ~is_escaped),
           !.prev_char = current_char]

\* One turn of the while loop.
validate_step(bytes, i, st) ==
    LET current_char == bytes[i]
        is_escaped == st.prev_char = Backslash /\ st.prev_was_escaping_backslash
        matched == IF is_escaped THEN st ELSE validate_match(bytes, i, st)
    IN [matched EXCEPT
           !.prev_was_escaping_backslash = (current_char = Backslash /\ ~is_escaped),
           !.prev_char = current_char]

RECURSIVE validate_range(_, _, _, _)
\* The turns of the loop for the positions lo..hi, until a panic; computed
\* by halves.
validate_range(bytes, lo, hi, st) ==
    IF st.panicked \/ lo > hi THEN st
    ELSE IF lo = hi THEN validate_step(bytes, lo, st)
         ELSE LET mid == (lo + hi) \div 2
                  half == validate_range(bytes, lo, mid, st)
              IN validate_range(bytes, mid + 1, hi, half)

\* while i < format_str_bytes.len()
validate_scan(bytes, i, st) == validate_range(bytes, i, Len(bytes), st)

\* Mutant: the assert on pipe_count is missing.
validate_end_no_pipe(st) ==
    /\ st.asterisk_count % 2 = 0
    /\ st.underscore_count % 2 = 0
    /\ st.backtick_count % 2 = 0
    /\ st.tilde_count % 2 = 0
    /\ st.square_bracket_count = 0
    /\ st.paren_count = 0
    /\ ~st.in_code
    /\ ~st.in_pre

\* The asserts after the loop.
validate_end(st) ==
    /\ st.asterisk_count % 2 = 0
    /\ st.underscore_count % 2 = 0
    /\ st.backtick_count % 2 = 0
    /\ st.tilde_count % 2 = 0
    /\ st.pipe_count % 2 = 0
    /\ st.square_bracket_count = 0
    /\ st.paren_count = 0
    /\ ~st.in_code
    /\ ~st.in_pre

\* TRUE when validate_markdownv2_format(format_str) returns, FALSE when it
\* panics.
validate_markdownv2_format(format_str) ==
    LET st == validate_scan(format_str, 1, ValidatorStart)
    IN ~st.panicked /\ validate_end(st)

(***************************************************************************)
(* markdown_format!: md_process_args! renders each argument to a String,   *)
(* the loop replaces the first "{}" of the result by each in turn, and     *)
(* from_validated_string makes the value.                                  *)
(***************************************************************************)
Placeholder == <<LBrace, RBrace>>
CodeFence == <<Backtick, Backtick, Backtick>>

\* The arguments: a text (escaped by Into<MarkdownString>), a MarkdownString
\* (passed as it is, or with @raw), and @code with its language.
PlainArg(text) == [pol |-> "plain", text |-> text, lang |-> <<>>, md |-> Default]
RawArg(md) == [pol |-> "raw", text |-> <<>>, lang |-> <<>>, md |-> md]
MdArg(md) == [pol |-> "md", text |-> <<>>, lang |-> <<>>, md |-> md]
CodeArg(lang, text) == [pol |-> "code", text |-> text, lang |-> lang, md |-> Default]

\* md_process_args! with the text of @code escaped as a plain text is.
md_process_arg_code_escaped(arg) ==
    IF arg.pol \in {"raw", "md"}
    THEN [kind |-> "ok", str |-> arg.md.s]
    ELSE LET r == escape(arg.text)
         IN [kind |-> r.kind,
             str |-> IF arg.pol = "plain" THEN r.v.s
                     ELSE CodeFence \o arg.lang \o <<Newline>> \o r.v.s \o <<Newline>> \o CodeFence]

\* One argument of md_process_args!: how the call ended, and the String.
\* A MarkdownString without modifier goes through the identity Into.
md_process_arg(arg) ==
    IF arg.pol = "plain"
    THEN LET r == escape(arg.text) IN [kind |-> r.kind, str |-> r.v.s]
    ELSE IF arg.pol \in {"raw", "md"}
         THEN [kind |-> "ok", str |-> arg.md.s]
         ELSE [kind |-> "ok",
               str |-> CodeFence \o arg.lang \o <<Newline>> \o arg.text \o <<Newline>> \o CodeFence]

\* str::find("{}"): the 1-based position of the first placeholder, or 0.
find_placeholder(s) ==
    LET hits == {i \in 1..(Len(s) - 1) : s[i] = LBrace /\ s[i + 1] = RBrace}
    IN IF hits = {} THEN 0 ELSE CHOOSE i \in hits : \A j \in hits : i <= j

\* String::replace_range(pos..pos + 2, arg)
replace_range(s, pos, arg) ==
    SubSeq(s, 1, pos - 1) \o arg \o SubSeq(s, pos + Len(Placeholder), Len(s))

RECURSIVE replace_placeholders(_, _)
\* for escaped_arg in escaped_args { if let Some(pos) = result.find("{}") ... }
replace_placeholders(result, escaped_args) ==
    IF escaped_args = <<>> THEN result
    ELSE LET pos == find_placeholder(result)
         IN replace_placeholders(
                IF pos = 0 THEN result ELSE replace_range(result, pos, Head(escaped_args)),
                Tail(escaped_args))

\* markdown_format!(template, args...), the template a MarkdownString
markdown_format(template, args) ==
    LET processed == [i \in 1..Len(args) |-> md_process_arg(args[i])]
        failed == {i \in 1..Len(args) : processed[i].kind # "ok"}
    IN IF failed # {}
       THEN Outcome(processed[CHOOSE i \in failed : \A j \in failed : i <= j].kind, Default)
       ELSE from_validated_string(
                replace_placeholders(template.s, [i \in 1..Len(args) |-> processed[i].str]))

\* markdown_string!(literal): the program compiles only if the validator
\* returns on the literal ("rejected" otherwise).
markdown_string(literal) ==
    IF validate_markdownv2_format(literal)
    THEN from_validated_string(literal)
    ELSE Outcome("rejected", Default)

\* markdown_format!(literal, args...): the literal through markdown_string!
markdown_format_literal(format_str, args) ==
    LET template == markdown_string(format_str)
    IN IF template.kind = "ok" THEN markdown_format(template.v, args) ELSE template

(***************************************************************************)
(* Input texts.                                                            *)
(***************************************************************************)
RECURSIVE Run(_, _)
\* n copies of the byte sequence u
Run(u, n) ==
    IF n = 0 THEN <<>>
    ELSE IF n = 1 THEN u
         ELSE LET h == n \div 2 IN Run(u, h) \o Run(u, n - h)

\* The longest payload that push lets grow: the ceiling less the marker.
Fit == TELEGRAM_MAX_MESSAGE_LENGTH - Len(TRUNCATION_MARKER)

Near(x) == {n \in (x - Window)..(x + Window) : n >= 0}

\* Lengths of runs of an ordinary byte (escaped length n): around the
\* thresholds of push and from_validated_string.
ConsLens ==
    (0..Window) \cup Near(Fit \div 2) \cup Near(TELEGRAM_MAX_MESSAGE_LENGTH \div 2)
    \cup Near(Fit) \cup Near(TELEGRAM_MAX_MESSAGE_LENGTH)

\* Lengths of runs of a special byte (escaped length 2n): around the halves
\* of the thresholds.
HalfLens ==
    (0..Window) \cup Near(Fit \div 2) \cup Near(TELEGRAM_MAX_MESSAGE_LENGTH \div 2)

SpecialFill == {Star, Backslash, Dot}

\* m special bytes, then ordinary bytes past the ceiling: the cut prefix has
\* m (from_validated_string) or 2m (escape) special bytes, around the margin
\* of 100, the margin less one marker and the margin less two markers.
HeadLens ==
    Near((EscapeMargin - 2 * Len(TRUNCATION_MARKER)) \div 2)
    \cup Near((EscapeMargin - Len(TRUNCATION_MARKER)) \div 2)
    \cup Near(EscapeMargin \div 2)
    \cup Near(EscapeMargin - Len(TRUNCATION_MARKER))
    \cup Near(EscapeMargin)

\* One special byte around the cut offset, among ordinary bytes.
CutOffsets == Near(safe_length - 1)

ConsTexts ==
    {Run(<<LetterA>>, n) : n \in ConsLens}
    \cup {Run(<<c>>, n) : c \in SpecialFill, n \in HalfLens}
    \cup {Run(<<Star>>, m) \o Run(<<LetterA>>, TELEGRAM_MAX_MESSAGE_LENGTH + 1) : m \in HeadLens}
    \cup {Run(<<LetterA>>, k) \o <<Star>> \o Run(<<LetterA>>, 2 * EscapeMargin) : k \in CutOffsets}
    \cup {Run(<<LetterA>>, k) \o Run(MoneyBag, (TELEGRAM_MAX_MESSAGE_LENGTH \div 4) + 1) : k \in 0..Window}

\* The texts of the engine: runs of an ordinary byte, of the lengths at the
\* thresholds, and short runs of a special byte.
EngineLens ==
    {Fit \div 2, (Fit \div 2) + 1, Fit, Fit + 1,
     TELEGRAM_MAX_MESSAGE_LENGTH, TELEGRAM_MAX_MESSAGE_LENGTH + 1}

EngineTexts ==
    {Run(<<LetterA>>, n) : n \in EngineLens}
    \cup {Run(<<Star>>, n) : n \in {1, EscapeMargin \div 4}}

\* The constructors' results on the input texts, computed once.
EscapeOfCons == [t \in ConsTexts |-> escape(t)]
FromValidatedOfCons == [t \in ConsTexts |-> from_validated_string(t)]
EscapeOfEngine == [t \in EngineTexts |-> escape(t)]
FromValidatedOfEngine == [t \in EngineTexts |-> from_validated_string(t)]

(***************************************************************************)
(* State: two MarkdownString variables of a caller (acc, the receiver of   *)
(* push, and opd, the operand and the destination of the constructors),    *)
(* whether the program crashed, and a record of the last operation.        *)
(***************************************************************************)
NoOp ==
    [op |-> "none", arg |-> <<>>, args |-> <<>>, recv |-> Default, other |-> Default,
     out |-> Default]

\* No key encoded yet.
NoCodec == [step |-> "none", key |-> <<>>, filename |-> <<>>, decoded |-> <<>>]

\* The tasks that call the store, the chats, the keys and the values.
Tasks == {1, 2}
Chats == {"c1", "c2"}
StoreKeys == {"k1", "k2"}
Values == {"v1", "v2"}
\* Option::None
None == "None"

\* A task outside a call.
IdleTask ==
    [pc |-> "idle", op |-> "none", chat |-> "c1", key |-> "k1", value |-> None, calls |-> 0]

\* No call has returned yet.
NoReply ==
    [task |-> 0, op |-> "none", chat |-> "c1", key |-> "k1", value |-> None, ret |-> None,
     want |-> None]

\* HashMap::new()
EmptyMap == [k \in {} |-> None]

\* No FilesystemYamlStore and no callback storage in use.
NoFsys == [step |-> "none"]
NoCbs == [step |-> "none"]

Init ==
    /\ acc = Default
    /\ opd = Default
    /\ last = NoOp
    /\ crashed = "none"
    /\ nops = 0
    /\ codec = NoCodec
    /\ data = EmptyMap
    /\ guard = 0
    /\ task = [t \in Tasks |-> IdleTask]
    /\ shadow = [ck \in Chats \X StoreKeys |-> None]
    /\ reply = NoReply
    /\ fsys = NoFsys
    /\ cbs = NoCbs

\* opd = MarkdownString::escape(t)
EscapeCall(t, r) ==
    /\ crashed = "none"
    /\ crashed' = IF r.kind = "ok" THEN "none" ELSE r.kind
    /\ opd' = IF r.kind = "ok" THEN r.v ELSE opd
    /\ last' = [NoOp EXCEPT !.op = "escape", !.arg = t, !.out = r.v]
    /\ UNCHANGED <<acc, storeVars>>

\* opd = MarkdownString::from_validated_string(s)
FromValidatedCall(s, r) ==
    /\ crashed = "none"
    /\ crashed' = IF r.kind = "ok" THEN "none" ELSE r.kind
    /\ opd' = IF r.kind = "ok" THEN r.v ELSE opd
    /\ last' = [NoOp EXCEPT !.op = "from_validated_string", !.arg = s, !.out = r.v]
    /\ UNCHANGED <<acc, storeVars>>

(***************************************************************************)
(* The constructors alone, over ConsTexts.                                 *)
(***************************************************************************)
ConsEscape ==
    /\ \E t \in ConsTexts : EscapeCall(t, EscapeOfCons[t])
    /\ UNCHANGED nops

ConsFromValidated ==
    /\ \E s \in ConsTexts : FromValidatedCall(s, FromValidatedOfCons[s])
    /\ UNCHANGED nops

NextCons == ConsEscape \/ ConsFromValidated

SpecCons == Init /\ [][NextCons]_vars

(***************************************************************************)
(* The engine: constructors, Clone, push and `+` on the two variables.     *)
(***************************************************************************)
Step == nops < MaxOps /\ nops' = nops + 1

Escape ==
    /\ Step
    /\ \E t \in EngineTexts : EscapeCall(t, EscapeOfEngine[t])

FromValidated ==
    /\ Step
    /\ \E s \in EngineTexts : FromValidatedCall(s, FromValidatedOfEngine[s])

\* acc = opd.clone()
Clone ==
    /\ Step
    /\ crashed = "none"
    /\ acc' = opd
    /\ last' = [NoOp EXCEPT !.op = "clone", !.recv = acc, !.other = opd, !.out = opd]
    /\ UNCHANGED <<opd, crashed, storeVars>>

\* acc.push(&opd)
Push ==
    /\ Step
    /\ crashed = "none"
    /\ acc' = push(acc, opd)
    /\ last' = [NoOp EXCEPT !.op = "push", !.recv = acc, !.other = opd, !.out = acc']
    /\ UNCHANGED <<opd, crashed, storeVars>>

\* opd = &acc + &opd (and the three forms that move an operand)
Add ==
    /\ Step
    /\ crashed = "none"
    /\ opd' = add(acc, opd)
    /\ last' = [NoOp EXCEPT !.op = "add", !.recv = acc, !.other = opd, !.out = opd']
    /\ UNCHANGED <<acc, crashed, storeVars>>

\* The templates and the argument lists of the engine's markdown_format!
\* calls: the two variables as MarkdownString arguments, and @code.
EngineTemplates == {Placeholder \o Placeholder}

EngineArgs ==
    {<<RawArg(acc), RawArg(opd)>>, <<CodeArg(<<>>, opd.s)>>}

\* opd = markdown_format!(tpl, args...)
Format ==
    /\ Step
    /\ crashed = "none"
    /\ \E tpl \in EngineTemplates, args \in EngineArgs :
          LET r == markdown_format_literal(tpl, args)
          IN /\ r.kind # "rejected"
             /\ crashed' = IF r.kind = "ok" THEN "none" ELSE r.kind
             /\ opd' = IF r.kind = "ok" THEN r.v ELSE opd
             /\ last' = [NoOp EXCEPT !.op = "format", !.arg = tpl,
                                      !.args = [i \in 1..Len(args) |-> args[i].pol],
                                      !.recv = acc, !.other = opd, !.out = r.v]
    /\ UNCHANGED <<acc, storeVars>>

Next == Escape \/ FromValidated \/ Clone \/ Push \/ Add \/ Format

Spec == Init /\ [][Next]_vars

(***************************************************************************)
(* Templates and text arguments: a template literal that the validator     *)
(* accepts is made a MarkdownString by markdown_string!, and               *)
(* markdown_format! fills it with plain-text arguments (escaped).          *)
(***************************************************************************)
TemplateBytes ==
    {LetterA, Star, Backslash, LBrace, RBrace, LBracket, RBracket, LParen, Backtick}

SeqsUpTo(S, n) == UNION {[1..k -> S] : k \in 0..n}

FmtTemplates == SeqsUpTo(TemplateBytes, MaxTemplateLen)

\* The literals with which the program compiles.
AcceptedTemplates == {t \in FmtTemplates : validate_markdownv2_format(t)}

\* The texts of the arguments: empty, an ordinary character, characters
\* that escape puts a backslash before.
ArgTexts == {<<>>, <<LetterA>>, <<Star>>, <<Backslash>>}

FmtArgLists == SeqsUpTo(ArgTexts, MaxArgs)

\* opd = markdown_string!(tpl)
FmtTemplate ==
    /\ last.op = "none"
    /\ crashed = "none"
    /\ \E tpl \in AcceptedTemplates :
          LET r == markdown_string(tpl)
          IN /\ crashed' = IF r.kind = "ok" THEN "none" ELSE r.kind
             /\ opd' = IF r.kind = "ok" THEN r.v ELSE opd
             /\ last' = [NoOp EXCEPT !.op = "markdown_string", !.arg = tpl, !.out = r.v]
    /\ UNCHANGED <<acc, nops, storeVars>>

\* opd = markdown_format!(opd, texts...), every argument a plain text
FmtFormat ==
    /\ last.op = "markdown_string"
    /\ crashed = "none"
    /\ \E texts \in FmtArgLists :
          LET r == markdown_format(opd, [i \in 1..Len(texts) |-> PlainArg(texts[i])])
          IN /\ crashed' = IF r.kind = "ok" THEN "none" ELSE r.kind
             /\ opd' = IF r.kind = "ok" THEN r.v ELSE opd
             /\ last' = [NoOp EXCEPT !.op = "format_text", !.arg = opd.s, !.args = texts,
                                      !.out = r.v]
    /\ UNCHANGED <<acc, nops, storeVars>>

NextFmt == FmtTemplate \/ FmtFormat

SpecFmt == Init /\ [][NextFmt]_vars

(***************************************************************************)
(* Short texts: escape of a text, and escape of the payload of the value   *)
(* that escape returned.                                                   *)
(***************************************************************************)
TextBytes == {LetterA, Star, Backslash, Dot, Underscore}

ShortTexts == SeqsUpTo(TextBytes, MaxTextLen)

\* opd = MarkdownString::escape(t)
TextEscape ==
    /\ last.op = "none"
    /\ \E t \in ShortTexts : EscapeCall(t, escape(t))
    /\ UNCHANGED nops

\* opd = MarkdownString::escape(opd.as_str())
TextEscapeAgain ==
    /\ last.op = "escape"
    /\ last.arg \in ShortTexts
    /\ EscapeCall(opd.s, escape(opd.s))
    /\ UNCHANGED nops

NextText == TextEscape \/ TextEscapeAgain

SpecText == Init /\ [][NextText]_vars

(***************************************************************************)
(* The validator alone: validate_markdownv2_format on a template, as the   *)
(* const evaluation of markdown_string! runs it; "rejected" when it        *)
(* panics.                                                                 *)
(***************************************************************************)
\* The characters rejected outside code, the backslash and the backtick.
ReservedBytes == {Excl, Dot, Minus, Plus, Equals, Gt, Hash, Backslash, Backtick}

\* Braces and counted characters, the backslash and the backtick.
BraceBytes == {LetterA, Backslash, Backtick, LBrace, RBrace, Star, Underscore}

\* The characters whose parity is checked at the end of the scan.
ToggleChars == {Star, Underscore, Tilde, Pipe}

\* Run lengths at which an 8-bit counter wraps.
WrapLens == {1, 2, U8 - 1, U8, U8 + 1}

\* Brackets, escaped or not.
BracketBytes == {LBracket, RBracket, Backslash, LetterA}

ValTemplates ==
    SeqsUpTo(ReservedBytes, MaxValLen)
    \cup SeqsUpTo(BraceBytes, MaxValLen)
    \cup SeqsUpTo(BracketBytes, MaxValLen)
    \cup {Run(<<c>>, n) : c \in ToggleChars \cup {LBracket}, n \in WrapLens}
    \cup {Run(<<LBracket>>, n) \o Run(<<RBracket>>, n) : n \in WrapLens}

\* const _: () = validate_markdownv2_format(t)
ValValidate ==
    /\ last.op = "none"
    /\ \E t \in ValTemplates :
          /\ last' = [NoOp EXCEPT !.op = "validate", !.arg = t]
          /\ crashed' = IF validate_markdownv2_format(t) THEN "none" ELSE "rejected"
    /\ UNCHANGED <<acc, opd, nops, storeVars>>

NextVal == ValValidate

SpecVal == Init /\ [][NextVal]_vars

(***************************************************************************)
(* The validator on templates with a fenced block: a piece, three          *)
(* backticks, a piece, three backticks, a piece; and templates whose fence *)
(* is not closed.                                                          *)
(***************************************************************************)
FencePieces(n) == SeqsUpTo({Backtick, Excl, LetterA}, n)

\* The templates with pieces of up to n bytes.
FenceTemplates(n) ==
    {a \o CodeFence \o b \o CodeFence \o c : a, b, c \in FencePieces(n)}
    \cup {a \o CodeFence \o b : a, b \in FencePieces(n)}

\* const _: () = validate_markdownv2_format(t)
FenceValidate ==
    /\ last.op = "none"
    /\ \E t \in FenceTemplates(MaxPieceLen) :
          /\ last' = [NoOp EXCEPT !.op = "validate", !.arg = t]
          /\ crashed' = IF validate_markdownv2_format(t) THEN "none" ELSE "rejected"
    /\ UNCHANGED <<acc, opd, nops, storeVars>>

NextFence == FenceValidate

SpecFence == Init /\ [][NextFence]_vars

(***************************************************************************)
(* Substitution with every kind of argument: a short template literal that *)
(* the validator accepts, then markdown_format! with plain texts, with     *)
(* MarkdownStrings (with @raw and without) and with @code.                 *)
(***************************************************************************)
SubBytes == {LetterA, LBrace, RBrace}

SubTemplates ==
    {t \in SeqsUpTo(SubBytes, MaxSubLen) : validate_markdownv2_format(t)}

\* MarkdownStrings that a caller can hold: markdown_string!("{}"),
\* markdown_string!("*a*") and MarkdownString::escape("*").
SubMarkdowns ==
    {markdown_string(Placeholder).v, markdown_string(<<Star, LetterA, Star>>).v,
     escape(<<Star>>).v}

\* A letter, a number (-1 has the byte of the minus), a text that is a
\* placeholder, a backslash; code with and without a language.
SubArgs ==
    {PlainArg(<<LetterA>>), PlainArg(<<Minus, LetterA>>), PlainArg(Placeholder),
     PlainArg(<<Backslash>>)}
    \cup {RawArg(md) : md \in SubMarkdowns}
    \cup {MdArg(md) : md \in SubMarkdowns}
    \cup {CodeArg(<<>>, Placeholder), CodeArg(<<LetterA>>, <<LetterA, Dot, Star>>)}

SubArgLists == SeqsUpTo(SubArgs, MaxSubArgs)

\* opd = markdown_string!(tpl)
SubTemplate ==
    /\ last.op = "none"
    /\ crashed = "none"
    /\ \E tpl \in SubTemplates :
          LET r == markdown_string(tpl)
          IN /\ crashed' = IF r.kind = "ok" THEN "none" ELSE r.kind
             /\ opd' = IF r.kind = "ok" THEN r.v ELSE opd
             /\ last' = [NoOp EXCEPT !.op = "markdown_string", !.arg = tpl, !.out = r.v]
    /\ UNCHANGED <<acc, nops, storeVars>>

\* opd = markdown_format!(opd, args...)
SubFormat ==
    /\ last.op = "markdown_string"
    /\ crashed = "none"
    /\ \E args \in SubArgLists :
          LET r == markdown_format(opd, args)
          IN /\ crashed' = IF r.kind = "ok" THEN "none" ELSE r.kind
             /\ opd' = IF r.kind = "ok" THEN r.v ELSE opd
             /\ last' = [NoOp EXCEPT !.op = "substitute", !.arg = opd.s, !.args = args,
                                      !.out = r.v]
    /\ UNCHANGED <<acc, nops, storeVars>>

NextSub == SubTemplate \/ SubFormat

SpecSub == Init /\ [][NextSub]_vars

(***************************************************************************)
(* Concatenation of two values made by markdown_string! from literals that *)
(* the validator accepts: acc.push(&opd) and acc + opd.                    *)
(***************************************************************************)
CatBytes == {LetterA, Backslash, Star, LBracket, RBracket, LParen, Backtick}

CatTemplates ==
    {t \in SeqsUpTo(CatBytes, MaxCatLen) : validate_markdownv2_format(t)}

\* acc = markdown_string!(a)
CatReceiver ==
    /\ last.op = "none"
    /\ \E a \in CatTemplates :
          /\ acc' = markdown_string(a).v
          /\ last' = [NoOp EXCEPT !.op = "receiver", !.arg = a, !.out = acc']
    /\ UNCHANGED <<opd, crashed, nops, storeVars>>

\* opd = markdown_string!(b)
CatOperand ==
    /\ last.op = "receiver"
    /\ \E b \in CatTemplates :
          /\ opd' = markdown_string(b).v
          /\ last' = [NoOp EXCEPT !.op = "operand", !.arg = b, !.out = opd']
    /\ UNCHANGED <<acc, crashed, nops, storeVars>>

\* acc.push(&opd)
CatPush ==
    /\ last.op = "operand"
    /\ acc' = push(acc, opd)
    /\ last' = [NoOp EXCEPT !.op = "push", !.recv = acc, !.other = opd, !.out = acc']
    /\ UNCHANGED <<opd, crashed, nops, storeVars>>

\* opd = acc + opd
CatAdd ==
    /\ last.op = "operand"
    /\ opd' = add(acc, opd)
    /\ last' = [NoOp EXCEPT !.op = "add", !.recv = acc, !.other = opd, !.out = opd']
    /\ UNCHANGED <<acc, crashed, nops, storeVars>>

NextCat == CatReceiver \/ CatOperand \/ CatPush \/ CatAdd

SpecCat == Init /\ [][NextCat]_vars

(***************************************************************************)
(* data_store::util: a key is a sequence of chars (code points); a         *)
(* filename likewise.                                                      *)
(***************************************************************************)
Slash == 47
Colon == 58
Question == 63
Quote == 34
Lt == 60
Percent == 37
Space == 32
\* A char outside ASCII (two bytes in UTF-8).
EAcute == 233

\* "%2F", "%5C", ... : the text the encoder writes for a char
Pct(d1, d2) == <<Percent, d1, d2>>

\* The chars '0'..'9' and 'A'..'F' by their value, as the literals of the
\* encoder write them.
Digit(v) == 48 + v
Upper(v) == 55 + v

\* An encoder that pushes '%' as it is (and rewrites only '/', the space and
\* the leading dot).
encode_char_percent_raw(i, ch) ==
    IF ch = Slash THEN Pct(Digit(2), Upper(15))
    ELSE IF ch = Percent THEN <<ch>>
    ELSE IF ch = Space THEN Pct(Digit(2), Digit(0))
    ELSE IF ch = Dot /\ i = 0 THEN Pct(Digit(2), Upper(14))
    ELSE <<ch>>

\* One turn of the loop of encode_key_to_filename: the match on ch, i the
\* index of ch counted from 0.
encode_char(i, ch) ==
    IF ch = Slash THEN Pct(Digit(2), Upper(15))
    ELSE IF ch = Backslash THEN Pct(Digit(5), Upper(12))
    ELSE IF ch = Colon THEN Pct(Digit(3), Upper(10))
    ELSE IF ch = Star THEN Pct(Digit(2), Upper(10))
    ELSE IF ch = Question THEN Pct(Digit(3), Upper(15))
    ELSE IF ch = Quote THEN Pct(Digit(2), Digit(2))
    ELSE IF ch = Lt THEN Pct(Digit(3), Upper(12))
    ELSE IF ch = Gt THEN Pct(Digit(3), Upper(14))
    ELSE IF ch = Pipe THEN Pct(Digit(7), Upper(12))
    ELSE IF ch = Percent THEN Pct(Digit(2), Digit(5))
    ELSE IF ch = Space THEN Pct(Digit(2), Digit(0))
    ELSE IF ch = Dot /\ i = 0 THEN Pct(Digit(2), Upper(14))
    ELSE <<ch>>

RECURSIVE encode_from(_, _)
encode_from(key, n) ==
    IF n > Len(key) THEN <<>> ELSE encode_char(n - 1, key[n]) \o encode_from(key, n + 1)

encode_key_to_filename(key) == encode_from(key, 1)

\* char::len_utf8 (of the chars below U+0800)
len_utf8(ch) == IF ch < 128 THEN 1 ELSE 2

\* String::len: the length in bytes
byte_len(str) == IF str = <<>> THEN 0 ELSE len_utf8(str[1]) + (IF Len(str) > 1 THEN len_utf8(str[2]) ELSE 0)

\* char::to_digit(16): the value of a hex digit, -1 of another char
to_digit(ch) ==
    IF ch \in 48..57 THEN ch - 48
    ELSE IF ch \in 65..70 THEN ch - 55
    ELSE IF ch \in 97..102 THEN ch - 87
    ELSE -1

\* u8::from_str_radix(hex, 16) of a text of one or two chars: the value, or
\* -1 for Err. A leading '+' is a sign; a text that is only a sign is Err.
from_str_radix(hex) ==
    IF byte_len(hex) # Len(hex) THEN -1
    ELSE IF Len(hex) = 2 /\ hex[1] = Plus THEN to_digit(hex[2])
    ELSE IF Len(hex) = 2 /\ to_digit(hex[1]) >= 0 /\ to_digit(hex[2]) >= 0
         THEN 16 * to_digit(hex[1]) + to_digit(hex[2])
    ELSE -1

RECURSIVE decode_from(_, _)
\* The loop of decode_filename_to_key from the n-th char on.
decode_from(filename, n) ==
    IF n > Len(filename) THEN <<>>
    ELSE IF filename[n] = Percent
         THEN LET hex == SubSeq(filename, n + 1,
                                IF n + 2 <= Len(filename) THEN n + 2 ELSE Len(filename))
                  byte == from_str_radix(hex)
              IN (IF byte_len(hex) = 2 /\ byte >= 0
                  THEN <<byte>>
                  ELSE <<Percent>> \o hex)
                 \o decode_from(filename, n + 1 + Len(hex))
         ELSE <<filename[n]>> \o decode_from(filename, n + 1)

decode_filename_to_key(filename) == decode_from(filename, 1)

\* The keys: chars that the encoder rewrites (among them '%' and the dot,
\* leading or not), the digits and the letter of "%2F", a plus sign, which
\* from_str_radix takes for a sign, an ordinary letter and a char outside
\* ASCII.
KeyChars == {Percent, Digit(2), Upper(15), Slash, Dot, Space, Plus, LetterA, EAcute}

Keys == SeqsUpTo(KeyChars, MaxKeyLen)

EncodeOfKeys == [k \in Keys |-> encode_key_to_filename(k)]

\* let filename = encode_key_to_filename(key)
KeyEncode ==
    /\ codec.step = "none"
    /\ \E k \in Keys :
          codec' = [NoCodec EXCEPT !.step = "encoded", !.key = k, !.filename = EncodeOfKeys[k]]
    /\ UNCHANGED <<markdownVars, fsys, cbs, data, guard, task, shadow, reply>>

\* let decoded = decode_filename_to_key(&filename)
KeyDecode ==
    /\ codec.step = "encoded"
    /\ codec' = [codec EXCEPT !.step = "decoded",
                               !.decoded = decode_filename_to_key(codec.filename)]
    /\ UNCHANGED <<markdownVars, fsys, cbs, data, guard, task, shadow, reply>>

NextKey == KeyEncode \/ KeyDecode

SpecKey == Init /\ [][NextKey]_vars

(***************************************************************************)
(* InMemStore: data is the map behind Arc<Mutex<..>>, guard the task that  *)
(* holds the MutexGuard (0: nobody). A call waits at lock().await, then    *)
(* runs its body and drops the guard when it returns. shadow is a ghost:   *)
(* the flat map from (chat, key) to the value that an atomic map would     *)
(* hold; reply records the call that returned last, with the answer of the *)
(* ghost (want) beside the answer of the code (ret).                       *)
(***************************************************************************)
\* set that starts the map of the chat anew on every call
store_set_fresh_map(d, chat_id, key, value) ==
    [c \in DOMAIN d \cup {chat_id} |-> IF c = chat_id THEN [k \in {key} |-> value] ELSE d[c]]

\* data_guard.get(&chat_id)?.get(key).cloned()
store_get(d, chat_id, key) ==
    IF chat_id \notin DOMAIN d THEN None
    ELSE IF key \notin DOMAIN d[chat_id] THEN None
         ELSE d[chat_id][key]

\* data_guard.entry(chat_id).or_insert_with(HashMap::new).insert(key, value)
store_set(d, chat_id, key, value) ==
    LET chat_data == IF chat_id \in DOMAIN d THEN d[chat_id] ELSE EmptyMap
    IN [c \in DOMAIN d \cup {chat_id} |->
           IF c = chat_id
           THEN [k \in DOMAIN chat_data \cup {key} |-> IF k = key THEN value ELSE chat_data[k]]
           ELSE d[c]]

\* data_guard.get_mut(&chat_id): chat_data.remove(key).is_some(), else false
store_remove(d, chat_id, key) ==
    IF chat_id \in DOMAIN d
    THEN [ret |-> key \in DOMAIN d[chat_id],
          data |-> [d EXCEPT ![chat_id] = [k \in DOMAIN d[chat_id] \ {key} |-> d[chat_id][k]]]]
    ELSE [ret |-> FALSE, data |-> d]

\* The keys of the map of the chat; none when the chat has no map.
store_keys(d, chat_id) == IF chat_id \in DOMAIN d THEN DOMAIN d[chat_id] ELSE {}

\* The Vecs that collect() can make of the keys: HashMap iterates in an
\* order of its own.
Orders(S) ==
    {v \in [1..Cardinality(S) -> S] : \A i, j \in 1..Cardinality(S) : i # j => v[i] # v[j]}

CallsBegun == task[1].calls + task[2].calls

\* The task calls store.get / set / remove / keys and reaches lock().await.
StoreCall(t) ==
    /\ task[t].pc = "idle"
    /\ CallsBegun < MaxCalls
    /\ \E c \in Chats :
          \/ \E op \in {"get", "remove"}, k \in StoreKeys :
                 task' = [task EXCEPT ![t] = [@ EXCEPT !.pc = "waiting", !.op = op, !.chat = c,
                                                          !.key = k, !.calls = @ + 1]]
          \/ \E k \in StoreKeys, v \in Values :
                 task' = [task EXCEPT ![t] = [@ EXCEPT !.pc = "waiting", !.op = "set", !.chat = c,
                                                          !.key = k, !.value = v, !.calls = @ + 1]]
          \/ task' = [task EXCEPT ![t] = [@ EXCEPT !.pc = "waiting", !.op = "keys", !.chat = c,
                                                     !.calls = @ + 1]]
    /\ UNCHANGED <<markdownVars, fsys, cbs, codec, data, guard, shadow, reply>>

\* self.data.lock().await returns the guard
StoreLock(t) ==
    /\ task[t].pc = "waiting"
    /\ guard = 0
    /\ guard' = t
    /\ task' = [task EXCEPT ![t].pc = "locked"]
    /\ UNCHANGED <<markdownVars, fsys, cbs, codec, data, shadow, reply>>

\* The call returns: the guard is dropped and the task is outside a call.
StoreReturn(t, ret, want) ==
    /\ task[t].pc = "locked"
    /\ guard = t
    /\ guard' = 0
    /\ reply' = [task |-> t, op |-> task[t].op, chat |-> task[t].chat, key |-> task[t].key,
                 value |-> task[t].value, ret |-> ret, want |-> want]
    /\ task' = [task EXCEPT ![t] = [IdleTask EXCEPT !.calls = task[t].calls]]
    /\ UNCHANGED <<markdownVars, fsys, cbs, codec>>

StoreGet(t) ==
    /\ task[t].op = "get"
    /\ StoreReturn(t, store_get(data, task[t].chat, task[t].key),
                   shadow[<<task[t].chat, task[t].key>>])
    /\ UNCHANGED <<data, shadow>>

StoreSet(t) ==
    /\ task[t].op = "set"
    /\ StoreReturn(t, "unit", "unit")
    /\ data' = store_set(data, task[t].chat, task[t].key, task[t].value)
    /\ shadow' = [shadow EXCEPT ![<<task[t].chat, task[t].key>>] = task[t].value]

StoreRemove(t) ==
    /\ task[t].op = "remove"
    /\ LET r == store_remove(data, task[t].chat, task[t].key)
       IN /\ StoreReturn(t, r.ret, shadow[<<task[t].chat, task[t].key>>] # None)
          /\ data' = r.data
    /\ shadow' = [shadow EXCEPT ![<<task[t].chat, task[t].key>>] = None]

StoreKeysCall(t) ==
    /\ task[t].op = "keys"
    /\ \E v \in Orders(store_keys(data, task[t].chat)) :
          StoreReturn(t, v, {k \in StoreKeys : shadow[<<task[t].chat, k>>] # None})
    /\ UNCHANGED <<data, shadow>>

NextStore ==
    \/ \E t \in Tasks : StoreCall(t)
    \/ \E t \in Tasks : StoreLock(t)
    \/ \E t \in Tasks : StoreGet(t)
    \/ \E t \in Tasks : StoreSet(t)
    \/ \E t \in Tasks : StoreRemove(t)
    \/ \E t \in Tasks : StoreKeysCall(t)

SpecStore == Init /\ [][NextStore]_vars

(***************************************************************************)
(* FilesystemYamlStore: one YAML file per (chat, key) under the storage    *)
(* directory, a cache of the values and a map of the keys already looked   *)
(* up on disk, each behind its own async mutex.  No critical section holds *)
(* an await, so each is one step; the file operations between them are     *)
(* steps of their own.  A chat directory is named by its chat: the decimal *)
(* chat id holds no character that encode_key_to_filename changes.         *)
(***************************************************************************)
FsTasks == {1, 2}
FsChats == {"c1", "c2"}
FsValues == {"v1", "v2"}

\* ".yaml"
YamlSuffix == <<Dot, 121, LetterA, 109, 108>>

\* The keys the callers use: "a", "a.yaml" and "/".
FsKeys == {<<LetterA>>, <<LetterA>> \o YamlSuffix, <<Slash>>}

\* get_chat_dir(chat_id).join(format!("{}.yaml", encode_key_to_filename(key)))
get_file_path(chat_id, key) == <<chat_id, encode_key_to_filename(key) \o YamlSuffix>>

\* serde_yaml::to_string(value) and serde_yaml::from_str(&content).ok():
\* the text of a value parses back to the value, other text to nothing.
to_yaml(value) == <<"yaml", value>>

from_yaml(content) == IF content[1] = "yaml" THEN content[2] ELSE None

\* read_to_string of the file of the key; no file is None.
load_from_disk(disk, chat_id, key) ==
    LET file_path == get_file_path(chat_id, key)
    IN IF file_path \in DOMAIN disk THEN from_yaml(disk[file_path]) ELSE None

\* create_dir_all and fs::write of the YAML text of the value
save_to_disk(disk, chat_id, key, value) ==
    LET file_path == get_file_path(chat_id, key)
    IN [p \in DOMAIN disk \cup {file_path} |->
           IF p = file_path THEN to_yaml(value) ELSE disk[p]]

\* A delete that leaves the file where it is.
delete_from_disk_not(disk, chat_id, key) == disk

\* fs::remove_file of the file of the key
delete_from_disk(disk, chat_id, key) ==
    LET file_path == get_file_path(chat_id, key)
    IN [p \in DOMAIN disk \ {file_path} |-> disk[p]]

\* str::ends_with
ends_with(s, suffix) ==
    Len(s) >= Len(suffix) /\ SubSeq(s, Len(s) - Len(suffix) + 1, Len(s)) = suffix

\* str::trim_end_matches: the suffix is taken off as often as it matches.
RECURSIVE trim_end_matches(_, _)
trim_end_matches(s, suffix) ==
    IF ends_with(s, suffix)
    THEN trim_end_matches(SubSeq(s, 1, Len(s) - Len(suffix)), suffix)
    ELSE s

\* The names of the entries of the directory of the chat.
read_dir(disk, chat_id) == {p[2] : p \in {q \in DOMAIN disk : q[1] = chat_id}}

\* keys(): the Vecs it can return, one per order in which read_dir yields
\* the entries.
fs_keys(disk, chat_id) ==
    LET names == {n \in read_dir(disk, chat_id) : ends_with(n, YamlSuffix)}
    IN {[i \in 1..Len(o) |-> decode_filename_to_key(trim_end_matches(o[i], YamlSuffix))] :
           o \in Orders(names)}

\* loaded_guard.get(&chat_id).and_then(|k| k.get(key).copied()).unwrap_or(false)
is_loaded(loaded, chat_id, key) ==
    /\ chat_id \in DOMAIN loaded
    /\ key \in DOMAIN loaded[chat_id]
    /\ loaded[chat_id][key]

IdleFsTask == [pc |-> "idle", op |-> "none", chat |-> "none", key |-> <<>>, value |-> None,
               found |-> None, existed |-> FALSE]

NoFsReply == [task |-> 0, op |-> "none", chat |-> "none", key |-> <<>>, value |-> None,
              ret |-> None, want |-> None, settled |-> None]

\* What a directory holds when a store is opened on it: nothing, or the
\* file an earlier instance wrote for ("c1", "a").
OldFiles == {<<>>, save_to_disk(<<>>, "c1", <<LetterA>>, "v0")}

\* FilesystemYamlStore::new(storage_dir): empty cache, nothing loaded.
\* want is the value of the last set not followed by a remove; settled is
\* the value of a set that has returned with no set or remove of the key
\* in progress or begun since.
NewFsys(disk) ==
    [step |-> "open", disk |-> disk, cache |-> EmptyMap, loaded |-> EmptyMap,
     task |-> [t \in FsTasks |-> IdleFsTask], calls |-> 0,
     want |-> [ck \in FsChats \X FsKeys |-> load_from_disk(disk, ck[1], ck[2])],
     settled |-> [ck \in FsChats \X FsKeys |-> None],
     reply |-> NoFsReply]

InitFs ==
    /\ acc = Default
    /\ opd = Default
    /\ last = NoOp
    /\ crashed = "none"
    /\ nops = 0
    /\ codec = NoCodec
    /\ data = EmptyMap
    /\ guard = 0
    /\ task = [t \in Tasks |-> IdleTask]
    /\ shadow = [ck \in Chats \X StoreKeys |-> None]
    /\ reply = NoReply
    /\ fsys \in {NewFsys(disk) : disk \in OldFiles}
    /\ cbs = NoCbs

FsStep(f) ==
    /\ fsys' = f
    /\ UNCHANGED <<markdownVars, inMemVars, cbs>>

FsGoto(t, pc) == [fsys EXCEPT !.task[t].pc = pc]

\* The call of a writer of the key is between its begin and its return.
FsWriting(f, chat_id, key) ==
    \E u \in FsTasks :
        /\ f.task[u].pc # "idle"
        /\ f.task[u].op \in {"set", "remove"}
        /\ f.task[u].chat = chat_id
        /\ f.task[u].key = key

\* A task begins get, set, remove or keys.
FsCall(t, max) ==
    /\ fsys.task[t].pc = "idle"
    /\ fsys.calls < max
    /\ \E c \in FsChats :
          \/ \E op \in {"get", "remove"}, k \in FsKeys :
                FsStep([fsys EXCEPT
                    !.calls = @ + 1,
                    !.task[t] = [IdleFsTask EXCEPT !.pc = "ensure", !.op = op, !.chat = c,
                                                   !.key = k],
                    !.settled[<<c, k>>] = IF op = "remove" THEN None ELSE @])
          \/ \E k \in FsKeys, v \in FsValues :
                FsStep([fsys EXCEPT
                    !.calls = @ + 1,
                    !.task[t] = [IdleFsTask EXCEPT !.pc = "cache", !.op = "set", !.chat = c,
                                                   !.key = k, !.value = v],
                    !.settled[<<c, k>>] = None])
          \/ FsStep([fsys EXCEPT
                    !.calls = @ + 1,
                    !.task[t] = [IdleFsTask EXCEPT !.pc = "list", !.op = "keys", !.chat = c]])

\* ensure_loaded: under the loaded_keys lock, return when the key is
\* marked, else drop the lock and go on to the disk.
FsEnsureLoaded(t) ==
    LET me == fsys.task[t]
    IN /\ me.pc = "ensure"
       /\ IF is_loaded(fsys.loaded, me.chat, me.key)
          THEN FsStep(FsGoto(t, "cache"))
          ELSE FsStep(FsGoto(t, "load"))

\* ensure_loaded: load_from_disk(chat_id, key).await
FsLoad(t) ==
    LET me == fsys.task[t]
    IN /\ me.pc = "load"
       /\ FsStep([fsys EXCEPT !.task[t].pc = "fill",
                              !.task[t].found = load_from_disk(fsys.disk, me.chat, me.key)])

\* ensure_loaded: if let Some(value), insert it in the cache under the
\* cache lock.
FsFill(t) ==
    LET me == fsys.task[t]
    IN /\ me.pc = "fill"
       /\ FsStep([fsys EXCEPT
              !.task[t].pc = "mark",
              !.cache = IF me.found # None THEN store_set(@, me.chat, me.key, me.found) ELSE @])

\* ensure_loaded: mark the key as loaded under the loaded_keys lock.
FsMark(t) ==
    LET me == fsys.task[t]
    IN /\ me.pc = "mark"
       /\ FsStep([fsys EXCEPT !.task[t].pc = "cache",
                              !.loaded = store_set(@, me.chat, me.key, TRUE)])

\* A call returns.
FsReturn(f, t, ret) ==
    LET me == fsys.task[t]
    IN FsStep([f EXCEPT
           !.task[t] = IdleFsTask,
           !.reply = [task |-> t, op |-> me.op, chat |-> me.chat, key |-> me.key,
                      value |-> me.value, ret |-> ret,
                      want |-> IF me.op = "keys" THEN None ELSE fsys.want[<<me.chat, me.key>>],
                      settled |-> IF me.op = "keys" THEN None
                                  ELSE fsys.settled[<<me.chat, me.key>>]]])

\* get: read the cache under the cache lock and return.
FsGet(t) ==
    LET me == fsys.task[t]
    IN /\ me.pc = "cache"
       /\ me.op = "get"
       /\ FsReturn(fsys, t, store_get(fsys.cache, me.chat, me.key))

\* set: insert the value in the cache under the cache lock.
FsSetCache(t) ==
    LET me == fsys.task[t]
    IN /\ me.pc = "cache"
       /\ me.op = "set"
       /\ FsStep([fsys EXCEPT !.task[t].pc = "setmark",
                              !.cache = store_set(@, me.chat, me.key, me.value)])

\* set: mark the key as loaded under the loaded_keys lock.
FsSetMark(t) ==
    LET me == fsys.task[t]
    IN /\ me.pc = "setmark"
       /\ FsStep([fsys EXCEPT !.task[t].pc = "save",
                              !.loaded = store_set(@, me.chat, me.key, TRUE)])

\* set: save_to_disk(chat_id, key, &value).await, and return.
FsSave(t) ==
    LET me == fsys.task[t]
        ck == <<me.chat, me.key>>
        others == [fsys EXCEPT !.task[t] = IdleFsTask]
    IN /\ me.pc = "save"
       /\ FsReturn([fsys EXCEPT
              !.disk = save_to_disk(@, me.chat, me.key, me.value),
              !.want[ck] = me.value,
              !.settled[ck] = IF FsWriting(others, me.chat, me.key) THEN None ELSE me.value],
              t, None)

\* remove: take the key out of the cache under the cache lock; return
\* false when it was not there.
FsRemoveCache(t) ==
    LET me == fsys.task[t]
        removed == store_remove(fsys.cache, me.chat, me.key)
    IN /\ me.pc = "cache"
       /\ me.op = "remove"
       /\ IF removed.ret
          THEN FsStep([fsys EXCEPT !.task[t].pc = "delete", !.task[t].existed = TRUE,
                                   !.cache = removed.data])
          ELSE FsReturn([fsys EXCEPT !.want[<<me.chat, me.key>>] = None], t, FALSE)

\* remove: delete_from_disk(chat_id, key).await, and return true.
FsDelete(t) ==
    LET me == fsys.task[t]
    IN /\ me.pc = "delete"
       /\ FsReturn([fsys EXCEPT !.disk = delete_from_disk(@, me.chat, me.key),
                                !.want[<<me.chat, me.key>>] = None],
                   t, me.existed)

\* keys: list the directory of the chat and return the decoded names.
FsKeysCall(t) ==
    LET me == fsys.task[t]
    IN /\ me.pc = "list"
       /\ \E ret \in fs_keys(fsys.disk, me.chat) : FsReturn(fsys, t, ret)

FsSteps(t) ==
    \/ FsEnsureLoaded(t)
    \/ FsLoad(t)
    \/ FsFill(t)
    \/ FsMark(t)
    \/ FsGet(t)
    \/ FsSetCache(t)
    \/ FsSetMark(t)
    \/ FsSave(t)
    \/ FsRemoveCache(t)
    \/ FsDelete(t)
    \/ FsKeysCall(t)

\* One caller: every call returns before the next begins.
NextFs ==
    \/ FsCall(1, MaxFsCalls)
    \/ FsSteps(1)

SpecFs == InitFs /\ [][NextFs]_vars

\* Two callers on one store.
NextFsTasks ==
    \/ \E t \in FsTasks : FsCall(t, MaxFsTaskCalls)
    \/ \E t \in FsTasks : FsSteps(t)

SpecFsTasks == InitFs /\ [][NextFsTasks]_vars

(***************************************************************************)
(* Callback data of inline keyboard buttons: pack_callback_data stores the *)
(* data that Telegram would not carry under the reference                  *)
(* "cb:{chat_id}:{message_id}:{button_pos}" in the storage of the chat and *)
(* unpack_callback_data reads it back.  The store behind the storage is a  *)
(* map of the chat (DataStoreTrait), changed by one call at a time.  The   *)
(* labels of the buttons go to the markup as they are and are left out.    *)
(***************************************************************************)
\* "cb"
CbPrefix == <<99, 98>>

\* The chat of the CallbackDataStorage and the messages that get keyboards.
CbChatId == 1
CbMessages == {1, 2}

\* i64 / i32 / usize Display: the decimal digits, '-' before a negative one.
RECURSIVE digits(_)
digits(n) == IF n < 10 THEN <<Digit(n)>> ELSE digits(n \div 10) \o <<Digit(n % 10)>>

int_to_string(n) == IF n < 0 THEN <<Minus>> \o digits(-n) ELSE digits(n)

CallbackDataKey(chat_id, message_id, button_pos) ==
    [chat_id |-> chat_id, message_id |-> message_id, button_pos |-> button_pos]

\* Display for CallbackDataKey: write!(f, "cb:{}:{}:{}", ...)
key_to_string(key) ==
    CbPrefix \o <<Colon>> \o int_to_string(key.chat_id) \o <<Colon>>
        \o int_to_string(key.message_id) \o <<Colon>> \o int_to_string(key.button_pos)

\* s.split(':').collect(): the pieces between the colons, cur the piece
\* being read.
RECURSIVE split_from(_, _, _)
split_from(s, i, cur) ==
    IF i > Len(s) THEN <<cur>>
    ELSE IF s[i] = Colon THEN <<cur>> \o split_from(s, i + 1, <<>>)
         ELSE split_from(s, i + 1, Append(cur, s[i]))

split(s) == split_from(s, 1, <<>>)

RECURSIVE digits_value(_)
digits_value(ds) ==
    IF ds = <<>> THEN 0
    ELSE 10 * digits_value(SubSeq(ds, 1, Len(ds) - 1)) + (ds[Len(ds)] - Digit(0))

\* str::parse of an integer type: an optional '+' (or '-' for a signed
\* type) and one or more decimal digits; Err on anything else.  Texts of
\* more than 9 digits are not met here and count as out of range.
parse_int(s, signed) ==
    LET sign == IF s # <<>> /\ (s[1] = Plus \/ (signed /\ s[1] = Minus)) THEN 1 ELSE 0
        ds == SubSeq(s, sign + 1, Len(s))
    IN IF ds = <<>> \/ Len(ds) > 9 \/ \E i \in 1..Len(ds) : ds[i] \notin Digit(0)..Digit(9)
       THEN Outcome("err", 0)
       ELSE Outcome("ok", IF sign = 1 /\ s[1] = Minus THEN -digits_value(ds)
                           ELSE digits_value(ds))

\* FromStr for CallbackDataKey
key_from_str(s) ==
    LET parts == split(s)
    IN IF Len(parts) # 4 \/ parts[1] # CbPrefix THEN Outcome("err", 0)
       ELSE LET chat_id == parse_int(parts[2], TRUE)
                message_id == parse_int(parts[3], TRUE)
                button_pos == parse_int(parts[4], FALSE)
            IN IF "err" \in {chat_id.kind, message_id.kind, button_pos.kind}
               THEN Outcome("err", 0)
               ELSE Outcome("ok", CallbackDataKey(chat_id.v, message_id.v, button_pos.v))

\* get_callback_data: self.store.get(self.chat_id, reference)
get_callback_data(store, chat_id, reference) == store_get(store, chat_id, reference)

\* store_callback_data: the value goes in under the text of its key, which
\* is returned.
store_callback_data(store, chat_id, message_id, button_pos, cb_data) ==
    LET reference == key_to_string(CallbackDataKey(chat_id, message_id, button_pos))
    IN [store |-> store_set(store, chat_id, reference, cb_data), reference |-> reference]

\* A clear that takes the keys of every message of the chat.
clears_key_any_message(chat_id, message_id, key_str) ==
    LET key == key_from_str(key_str)
    IN /\ key.kind = "ok"
       /\ key.v.chat_id = chat_id

\* The if-let of clear_message_callbacks: the key text parses and names
\* this chat and this message.
clears_key(chat_id, message_id, key_str) ==
    LET key == key_from_str(key_str)
    IN /\ key.kind = "ok"
       /\ key.v.chat_id = chat_id
       /\ key.v.message_id = message_id

\* clear_message_callbacks over all_keys, in the order keys() gave them.
RECURSIVE clear_message_callbacks(_, _, _, _)
clear_message_callbacks(store, chat_id, message_id, all_keys) ==
    IF all_keys = <<>> THEN store
    ELSE clear_message_callbacks(
             IF clears_key(chat_id, message_id, Head(all_keys))
             THEN store_remove(store, chat_id, Head(all_keys)).data
             ELSE store,
             chat_id, message_id, Tail(all_keys))

\* String::len (bytes) and str::is_ascii
str_len(s) == Len(s) + Cardinality({i \in 1..Len(s) : len_utf8(s[i]) = 2})

is_ascii(s) == \A i \in 1..Len(s) : s[i] < 128

\* Telegram carries at most 64 bytes of callback data.
CallbackLimit == 64

needs_storage(callback_data) ==
    str_len(callback_data) > CallbackLimit \/ ~is_ascii(callback_data)

\* The inner loop of pack_callback_data over the items of one row: st is
\* the store, the row built so far and button_pos.
RECURSIVE pack_row(_, _, _, _)
pack_row(st, chat_id, message_id, row) ==
    IF row = <<>> THEN st
    ELSE LET item == Head(row)
             stored == store_callback_data(st.store, chat_id, message_id, st.button_pos,
                                           item.data)
             next ==
                 IF item.kind = "Callback"
                 THEN IF needs_storage(item.data)
                      THEN [store |-> stored.store,
                            button_row |-> Append(st.button_row,
                                [kind |-> "callback", data |-> stored.reference]),
                            button_pos |-> st.button_pos + 1]
                      ELSE [st EXCEPT
                            !.button_row = Append(@, [kind |-> "callback", data |-> item.data]),
                            !.button_pos = @ + 1]
                 ELSE [st EXCEPT
                       !.button_row = Append(@, [kind |-> "switch_inline_query_current_chat",
                                                 data |-> item.data])]
         IN pack_row(next, chat_id, message_id, Tail(row))

\* The outer loop over the rows: st is the store, the rows built so far and
\* button_pos.
RECURSIVE pack_rows(_, _, _, _)
pack_rows(st, chat_id, message_id, rows) ==
    IF rows = <<>> THEN st
    ELSE LET done == pack_row([store |-> st.store, button_row |-> <<>>,
                               button_pos |-> st.button_pos],
                              chat_id, message_id, Head(rows))
         IN pack_rows([store |-> done.store,
                       button_rows |-> Append(st.button_rows, done.button_row),
                       button_pos |-> done.button_pos],
                      chat_id, message_id, Tail(rows))

\* pack_callback_data: clear the entries of the message, then build the
\* markup; all_keys is what store.keys gave to the clear.
pack_callback_data(store, chat_id, message_id, rows, all_keys) ==
    pack_rows([store |-> clear_message_callbacks(store, chat_id, message_id, all_keys),
               button_rows |-> <<>>, button_pos |-> 0],
              chat_id, message_id, rows)

\* str::starts_with
starts_with(s, prefix) == Len(s) >= Len(prefix) /\ SubSeq(s, 1, Len(prefix)) = prefix

\* The if-let: the get gave Some, that is, the store of the chat has the key.
unpack_callback_data(store, chat_id, callback_data) ==
    IF /\ starts_with(callback_data, CbPrefix \o <<Colon>>)
       /\ callback_data \in store_keys(store, chat_id)
    THEN get_callback_data(store, chat_id, callback_data)
    ELSE callback_data

\* Callback data: "a", 64 and 65 letters, a char outside ASCII, and a text
\* that reads like the reference of the first button of message 1.
CbData ==
    {<<LetterA>>, Run(<<LetterA>>, CallbackLimit), Run(<<LetterA>>, CallbackLimit + 1),
     <<EAcute>>, key_to_string(CallbackDataKey(CbChatId, 1, 0))}

ButtonDatas ==
    {[kind |-> "Callback", data |-> d] : d \in CbData}
    \cup {[kind |-> "SwitchInlineQuery", data |-> <<LetterA>>]}

\* The rows handed to pack_callback_data: up to n buttons, in one row or
\* in a row each.
CbRows(n) ==
    {<<b>> : b \in SeqsUpTo(ButtonDatas, n)}
    \cup {[i \in 1..Len(b) |-> <<b[i]>>] : b \in SeqsUpTo(ButtonDatas, n)}

NoPack == [op |-> "none", message_id |-> 0, rows |-> <<>>, before |-> EmptyMap,
           markup |-> <<>>, row |-> 0, col |-> 0, ret |-> <<>>]

\* The storage as earlier keyboards left it: empty, or with the entries of
\* one keyboard of message 1, or with those of a keyboard of message 2 too.
CbOldStores ==
    LET long == [kind |-> "Callback", data |-> Run(<<LetterA>>, CallbackLimit + 1)]
        other == [kind |-> "Callback", data |-> <<EAcute>>]
        one == pack_callback_data(EmptyMap, CbChatId, 1, <<<<long>>>>, <<>>).store
        two == pack_callback_data(one, CbChatId, 2, <<<<other, long>>>>,
                                  <<key_to_string(CallbackDataKey(CbChatId, 1, 0))>>).store
    IN {EmptyMap, one, two}

InitCb ==
    /\ acc = Default
    /\ opd = Default
    /\ last = NoOp
    /\ crashed = "none"
    /\ nops = 0
    /\ codec = NoCodec
    /\ data = EmptyMap
    /\ guard = 0
    /\ task = [t \in Tasks |-> IdleTask]
    /\ shadow = [ck \in Chats \X StoreKeys |-> None]
    /\ reply = NoReply
    /\ fsys = NoFsys
    /\ cbs \in {[step |-> "open", store |-> s, last |-> NoPack] : s \in CbOldStores}

\* A keyboard is packed for a message, on the storage as found.
CbPack ==
    /\ cbs.last.op = "none"
    /\ \E message_id \in CbMessages, rows \in CbRows(MaxButtons),
          all_keys \in Orders(store_keys(cbs.store, CbChatId)) :
          LET done == pack_callback_data(cbs.store, CbChatId, message_id, rows, all_keys)
          IN cbs' = [cbs EXCEPT
                 !.store = done.store,
                 !.last = [NoPack EXCEPT !.op = "pack", !.message_id = message_id,
                                         !.rows = rows, !.before = cbs.store,
                                         !.markup = done.button_rows]]
    /\ UNCHANGED <<markdownVars, inMemVars, fsys>>

\* A callback button of the last keyboard is pressed and its data unpacked.
CbUnpack ==
    /\ cbs.last.op = "pack"
    /\ \E r \in 1..Len(cbs.last.markup) :
          \E c \in 1..Len(cbs.last.markup[r]) :
             /\ cbs.last.markup[r][c].kind = "callback"
             /\ cbs' = [cbs EXCEPT
                    !.last = [@ EXCEPT !.op = "unpack", !.row = r, !.col = c,
                              !.ret = unpack_callback_data(cbs.store, CbChatId,
                                                           cbs.last.markup[r][c].data)]]
    /\ UNCHANGED <<markdownVars, inMemVars, fsys>>

NextCb ==
    \/ CbPack
    \/ CbUnpack

SpecCb == InitCb /\ [][NextCb]_vars

(***************************************************************************)
(* Predicates on payloads.                                                 *)
(***************************************************************************)
EndsWith(s, m) == Len(s) >= Len(m) /\ SubSeq(s, Len(s) - Len(m) + 1, Len(s)) = m

IsPrefixOf(p, s) == Len(p) <= Len(s) /\ SubSeq(s, 1, Len(p)) = p

\* A scan for live backslashes. The scan of a piece, entered with (1) or
\* without (0) a live backslash pending, leaves 0, 1, or 2 when the piece has
\* a MarkdownV2 character that no live backslash precedes.
ScanByte(c) ==
    <<IF c = Backslash THEN 1 ELSE IF c \in MarkdownV2Chars THEN 2 ELSE 0, 0>>

RECURSIVE ScanPiece(_)
ScanPiece(s) ==
    IF Len(s) = 0 THEN <<0, 1>>
    ELSE IF Len(s) = 1 THEN ScanByte(s[1])
         ELSE LET h == Len(s) \div 2
                  a == ScanPiece(SubSeq(s, 1, h))
                  b == ScanPiece(SubSeq(s, h + 1, Len(s)))
              IN [e \in 1..2 |-> IF a[e] = 2 THEN 2 ELSE b[a[e] + 1]]

\* Every MarkdownV2 character of s follows a live backslash, and s does not
\* end in a live backslash.
WellEscaped(s) == ScanPiece(s)[1] = 0

Returned(op) == last.op = op /\ crashed = "none"

\* How many backslashes stand in a row immediately before position i.
BackslashRunBefore(bytes, i) ==
    Cardinality({n \in 1..(i - 1) : \A j \in (i - n)..(i - 1) : bytes[j] = Backslash})

\* The byte at i is preceded by a live backslash: by an odd run of them.
LiveEscaped(bytes, i) == BackslashRunBefore(bytes, i) % 2 = 1

\* The locals of the validator when its scan reaches position i.
StateBefore(bytes, i) == validate_range(bytes, 1, i - 1, ValidatorStart)

\* The scan reaches position i, and the byte there is unescaped.
ScanReaches(bytes, i) == ~StateBefore(bytes, i).panicked

\* Neither the inline-code nor the fenced-block context is open at i.
OutsideCode(bytes, i) == ~StateBefore(bytes, i).in_code /\ ~StateBefore(bytes, i).in_pre

\* The scan does not panic on the byte at i.
StepPasses(bytes, i) == ~validate_step(bytes, i, StateBefore(bytes, i)).panicked

\* The characters ! . - + = > #
SevenReserved == {Excl, Dot, Minus, Plus, Equals, Gt, Hash}

\* The counter of the validator for a counted character.
ToggleCount(st, c) ==
    IF c = Star THEN st.asterisk_count
    ELSE IF c = Underscore THEN st.underscore_count
    ELSE IF c = Tilde THEN st.tilde_count
    ELSE st.pipe_count

Validated == last.op = "validate"

\* The positions of the placeholders of a template, and the n-th of them
\* counted from the left.
PlaceholderStarts(t) == {i \in 1..(Len(t) - 1) : t[i] = LBrace /\ t[i + 1] = RBrace}

PlaceholderAt(t, n) ==
    CHOOSE i \in PlaceholderStarts(t) :
        Cardinality({j \in PlaceholderStarts(t) : j <= i}) = n

Min(a, b) == IF a <= b THEN a ELSE b

RECURSIVE FillDown(_, _, _, _)
\* The first n placeholders of the template t replaced in cur by the first
\* n renderings, the n-th by the n-th (from the right, so that the positions
\* of the template stay those of cur).
FillDown(cur, t, rs, n) ==
    IF n = 0 THEN cur
    ELSE FillDown(replace_range(cur, PlaceholderAt(t, n), rs[n]), t, rs, n - 1)

\* The N-th placeholder of t holds the N-th rendering, for every N up to the
\* smaller of the two numbers.
FilledInOrder(t, rs) ==
    FillDown(t, t, rs, Min(Cardinality(PlaceholderStarts(t)), Len(rs)))

\* The renderings of the arguments of the last substitution.
Renderings == [i \in 1..Len(last.args) |-> md_process_arg(last.args[i]).str]

Substituted == last.op = "substitute"

\* The filenames of the keys, and: there are as many of them as keys, that
\* is, no two keys have the same filename.
EncodedKeys == {EncodeOfKeys[k] : k \in Keys}

EncodeInjective == Cardinality(EncodedKeys) = Cardinality(Keys)

\* How many of the first i bytes of t are bytes that escape puts a
\* backslash before.
SpecialsUpTo(t, i) == Cardinality({j \in 1..i : t[j] \in EscapedChars})

\* p is t with one backslash inserted before each MarkdownV2 character and
\* each backslash, and every byte of t copied in order.
IsBackslashed(p, t) ==
    /\ Len(p) = Len(t) + SpecialsUpTo(t, Len(t))
    /\ \A i \in 1..Len(t) :
          LET q == i + SpecialsUpTo(t, i)
          IN /\ p[q] = t[i]
             /\ t[i] \in EscapedChars => p[q - 1] = Backslash

(***************************************************************************)
(* C2: MarkdownString::escape terminates for every input text: the         *)
(* recursion escape -> from_validated_string -> escape reaches a call      *)
(* whose escaped text fits the ceiling.                                    *)
(***************************************************************************)
C2_EscapeTerminates ==
    last.op = "escape" => crashed \notin {"overflow", "deep"}

(***************************************************************************)
(* C4: in the payload of escape(t) every MarkdownV2 character follows a    *)
(* live backslash and the payload does not end in a live backslash, also   *)
(* when the escaped text was cut.                                          *)
(***************************************************************************)
C4_EscapeWellEscaped ==
    Returned("escape") => WellEscaped(last.out.s)

\* escape returned a cut text that has escaped characters before the marker
C4_Witness ==
    /\ Returned("escape")
    /\ Len(teloxide_escape(last.arg)) > TELEGRAM_MAX_MESSAGE_LENGTH
    /\ Len(last.out.s) > Len(TRUNCATION_MARKER)
    /\ \E i \in 1..(safe_length - 1) :
          last.out.s[i] = Backslash /\ last.out.s[i + 1] \in EscapedChars

(***************************************************************************)
(* C8 as claimed: escape(t) is truncated only if the escaped form of t is  *)
(* longer than the ceiling of 4096 bytes, and for every t whose escaped    *)
(* form is at most 4096 bytes the payload is the full escaped text and the *)
(* flag is false.                                                          *)
(***************************************************************************)
C8_Original ==
    Returned("escape") =>
        LET escaped == teloxide_escape(last.arg)
        IN /\ last.out.t => Len(escaped) > TELEGRAM_MAX_MESSAGE_LENGTH
           /\ Len(escaped) <= TELEGRAM_MAX_MESSAGE_LENGTH
                 => last.out = MarkdownString(escaped, FALSE)

(***************************************************************************)
(* C8 amended: the threshold is the ceiling less the marker, 4090 bytes:   *)
(* escape(t) is truncated only if the escaped form of t is longer than     *)
(* 4090 bytes, and for every t whose escaped form is at most 4090 bytes    *)
(* the payload is the full escaped text and the flag is false.             *)
(***************************************************************************)
C8_EscapeThreshold ==
    Returned("escape") =>
        LET escaped == teloxide_escape(last.arg)
        IN /\ last.out.t => Len(escaped) > Fit
           /\ Len(escaped) <= Fit => last.out = MarkdownString(escaped, FALSE)

\* escape of a text whose escaped form is one byte over 4090: the marker alone
C8_Witness ==
    /\ Returned("escape")
    /\ Len(teloxide_escape(last.arg)) = Fit + 1
    /\ last.out = MarkdownString(TRUNCATION_MARKER, TRUE)

(***************************************************************************)
(* C9 as claimed: from_validated_string(s) inserts no escape characters:   *)
(* its payload is s when s fits, and otherwise an unmodified prefix of s   *)
(* (possibly empty) followed by the truncation marker.                     *)
(***************************************************************************)
C9_Original ==
    Returned("from_validated_string") =>
        \/ last.out.s = last.arg
        \/ /\ EndsWith(last.out.s, TRUNCATION_MARKER)
           /\ IsPrefixOf(SubSeq(last.out.s, 1, Len(last.out.s) - Len(TRUNCATION_MARKER)),
                         last.arg)

(***************************************************************************)
(* C9 amended: from_validated_string(s) returns s itself, unescaped and    *)
(* not truncated, when s is at most 4096 bytes; for a longer s, when it    *)
(* returns, the value is truncated and its payload is the marker alone or  *)
(* the escaped form of the first 3996 bytes of s followed by the marker:   *)
(* the overflow path escapes the markup it keeps.                          *)
(***************************************************************************)
C9_FromValidatedEscapesOverflow ==
    Returned("from_validated_string") =>
        IF Len(last.arg) <= TELEGRAM_MAX_MESSAGE_LENGTH
        THEN last.out = MarkdownString(last.arg, FALSE)
        ELSE /\ last.out.t
             /\ \/ last.out.s = TRUNCATION_MARKER
                \/ last.out.s =
                      teloxide_escape(SubSeq(last.arg, 1, safe_length)) \o TRUNCATION_MARKER

\* an overlong string with markup came back with its markup escaped
C9_Witness ==
    /\ Returned("from_validated_string")
    /\ Len(last.arg) > TELEGRAM_MAX_MESSAGE_LENGTH
    /\ last.arg[1] = Star
    /\ last.out.s[1] = Backslash
    /\ last.out.s[2] = Star
    /\ last.out.t

(***************************************************************************)
(* C10 as claimed: from_validated_string(s) yields what the guard of push  *)
(* yields for s added to an empty value: payload s and flag false iff      *)
(* len(s) + 6 <= 4096, otherwise the marker alone and flag true.           *)
(***************************************************************************)
C10_Original ==
    Returned("from_validated_string") =>
        last.out = IF Len(last.arg) + Len(TRUNCATION_MARKER) <= TELEGRAM_MAX_MESSAGE_LENGTH
                   THEN MarkdownString(last.arg, FALSE)
                   ELSE MarkdownString(TRUNCATION_MARKER, TRUE)

(***************************************************************************)
(* C10 amended: from_validated_string has a threshold of its own: it       *)
(* yields payload s and flag false iff len(s) <= 4096. It agrees with the  *)
(* guard of push on an empty value while len(s) + 6 <= 4096; for           *)
(* 4090 < len(s) <= 4096 it keeps s where the guard yields the marker      *)
(* alone; for a longer s, when it returns, the flag is true and the        *)
(* payload ends with the marker.                                           *)
(***************************************************************************)
C10_FromValidatedOwnThreshold ==
    Returned("from_validated_string") =>
        /\ (Len(last.arg) <= TELEGRAM_MAX_MESSAGE_LENGTH)
              <=> (last.out = MarkdownString(last.arg, FALSE))
        /\ Len(last.arg) <= Fit
              => last.out = push(Default, MarkdownString(last.arg, FALSE))
        /\ Len(last.arg) \in (Fit + 1)..TELEGRAM_MAX_MESSAGE_LENGTH
              => /\ last.out # push(Default, MarkdownString(last.arg, FALSE))
                 /\ push(Default, MarkdownString(last.arg, FALSE))
                       = MarkdownString(TRUNCATION_MARKER, TRUE)
        /\ Len(last.arg) > TELEGRAM_MAX_MESSAGE_LENGTH
              => last.out.t /\ EndsWith(last.out.s, TRUNCATION_MARKER)

\* a string of 4091..4096 bytes came back whole and not truncated
C10_Witness ==
    /\ Returned("from_validated_string")
    /\ Len(last.arg) \in (Fit + 1)..TELEGRAM_MAX_MESSAGE_LENGTH
    /\ last.out = MarkdownString(last.arg, FALSE)

(***************************************************************************)
(* C1: after any sequence of escape, from_validated_string, push, `+` and  *)
(* markdown_format calls, every MarkdownString produced has a payload of   *)
(* at most 4096 bytes.                                                     *)
(***************************************************************************)
C1_PayloadWithinCeiling ==
    /\ Len(acc.s) <= TELEGRAM_MAX_MESSAGE_LENGTH
    /\ Len(opd.s) <= TELEGRAM_MAX_MESSAGE_LENGTH
    /\ Len(last.out.s) <= TELEGRAM_MAX_MESSAGE_LENGTH

\* markdown_format of two values that together pass the ceiling came back cut
C1_Witness ==
    /\ Returned("format")
    /\ ~last.recv.t /\ ~last.other.t
    /\ Len(last.recv.s) + Len(last.other.s) > TELEGRAM_MAX_MESSAGE_LENGTH
    /\ last.out.t
    /\ Len(last.out.s) <= TELEGRAM_MAX_MESSAGE_LENGTH

(***************************************************************************)
(* C5: a push or a `+` whose receiver has truncated = true leaves the      *)
(* payload and the flag as they were, whatever the operand.                *)
(***************************************************************************)
C5_TruncatedReceiverFrozen ==
    (last.op \in {"push", "add"} /\ last.recv.t) => last.out = last.recv

\* a push of a non-empty operand onto a truncated receiver
C5_Witness ==
    /\ last.op = "push"
    /\ last.recv.t
    /\ Len(last.other.s) > 0
    /\ acc = last.recv

(***************************************************************************)
(* C6: for a non-truncated receiver of length L, an operand of length A,   *)
(* the marker of length M and the ceiling C, push has three outcomes:      *)
(* L + A + M <= C: receiver followed by operand, flag false; else          *)
(* L + M <= C: receiver followed by the marker, flag true; else the        *)
(* payload unchanged, flag true.                                           *)
(***************************************************************************)
C6_PushThreeOutcomes ==
    (last.op = "push" /\ ~last.recv.t) =>
        LET L == Len(last.recv.s)
            A == Len(last.other.s)
            M == Len(TRUNCATION_MARKER)
            C == TELEGRAM_MAX_MESSAGE_LENGTH
        IN IF L + A + M <= C
           THEN acc.s = last.recv.s \o last.other.s /\ ~acc.t
           ELSE IF L + M <= C
                THEN acc.s = last.recv.s \o TRUNCATION_MARKER /\ acc.t
                ELSE acc.s = last.recv.s /\ acc.t

\* a push where the operand does not fit and the marker does
C6_Witness ==
    /\ last.op = "push"
    /\ ~last.recv.t
    /\ Len(last.recv.s) > 0
    /\ Len(last.recv.s) + Len(last.other.s) + Len(TRUNCATION_MARKER)
          > TELEGRAM_MAX_MESSAGE_LENGTH
    /\ Len(last.recv.s) + Len(TRUNCATION_MARKER) <= TELEGRAM_MAX_MESSAGE_LENGTH
    /\ acc = MarkdownString(last.recv.s \o TRUNCATION_MARKER, TRUE)

\* the other two outcomes of push
C6_FitsReached ==
    /\ last.op = "push" /\ ~last.recv.t
    /\ Len(last.recv.s) > 0 /\ Len(last.other.s) > 0
    /\ acc = MarkdownString(last.recv.s \o last.other.s, FALSE)

C6_FlagOnlyReached ==
    /\ last.op = "push" /\ ~last.recv.t
    /\ Len(last.recv.s) + Len(TRUNCATION_MARKER) > TELEGRAM_MAX_MESSAGE_LENGTH
    /\ acc = MarkdownString(last.recv.s, TRUE)

C7_TwoMarkersReached ==
    \E v \in {acc, opd} : v.t /\ EndsWith(v.s, TRUNCATION_MARKER \o TRUNCATION_MARKER)

(***************************************************************************)
(* C3: for every template accepted by validate_markdownv2_format and every *)
(* list of plain-text arguments, the result of markdown_format, when it is *)
(* not truncated, is accepted by validate_markdownv2_format.               *)
(***************************************************************************)
C3_FormatKeepsAccepted ==
    (Returned("format_text") /\ ~last.out.t) => validate_markdownv2_format(last.out.s)

(***************************************************************************)
(* C11: for a text t whose escaped form fits the length guard, the payload *)
(* of escape(t) is t with exactly one backslash inserted before each       *)
(* MarkdownV2 character and each backslash, the other bytes copied in      *)
(* order, and the value is not truncated; escaping the payload of an       *)
(* escaped value escapes it again (double escaping).                       *)
(***************************************************************************)
C11_EscapeInsertsBackslashes ==
    Returned("escape") => IsBackslashed(last.out.s, last.arg) /\ ~last.out.t

\* the payload \* of escape("*") was escaped again to \\\*
C11_Witness ==
    /\ Returned("escape")
    /\ last.arg = <<Backslash, Star>>
    /\ opd.s = <<Backslash, Backslash, Backslash, Star>>

(***************************************************************************)
(* C12: the validator fails on every template where one of ! . - + = > #   *)
(* occurs unescaped while neither the inline-code nor the fenced-block     *)
(* context is open; the same character causes no failure when a live       *)
(* backslash precedes it or a code context is open.                        *)
(***************************************************************************)
C12_ReservedRejectedOutsideCode ==
    Validated =>
        \A i \in 1..Len(last.arg) :
            (last.arg[i] \in SevenReserved /\ ScanReaches(last.arg, i)) =>
                IF ~LiveEscaped(last.arg, i) /\ OutsideCode(last.arg, i)
                THEN ~StepPasses(last.arg, i) /\ crashed = "rejected"
                ELSE StepPasses(last.arg, i)

\* a template accepted with an unescaped reserved character inside an open
\* code context
C12_Witness ==
    /\ Validated
    /\ crashed = "none"
    /\ \E i \in 1..Len(last.arg) :
          /\ last.arg[i] \in SevenReserved
          /\ ~LiveEscaped(last.arg, i)
          /\ ~OutsideCode(last.arg, i)

\* a template accepted with a reserved character after a live backslash
C12_EscapedReached ==
    /\ Validated
    /\ crashed = "none"
    /\ \E i \in 1..Len(last.arg) :
          last.arg[i] \in SevenReserved /\ LiveEscaped(last.arg, i)

\* a template rejected for an unescaped reserved character after a
\* double backslash
C12_RejectedReached ==
    /\ Validated
    /\ crashed = "rejected"
    /\ last.arg = <<Backslash, Backslash, Gt>>

(***************************************************************************)
(* C13: the validator counts every unescaped * _ ~ | in all contexts (in   *)
(* inline code and fenced blocks too), never fails on such a character     *)
(* during the scan, and fails at the end of the scan whenever the number   *)
(* of unescaped occurrences of one of the four is odd, for templates of    *)
(* any length (the counters are 8 bits wide and wrap).                     *)
(***************************************************************************)
C13_TogglesCountedParityChecked ==
    Validated =>
        /\ \A i \in 1..Len(last.arg) :
              (/\ last.arg[i] \in ToggleChars
               /\ ScanReaches(last.arg, i)
               /\ ~LiveEscaped(last.arg, i)) =>
                  /\ StepPasses(last.arg, i)
                  /\ ToggleCount(validate_step(last.arg, i, StateBefore(last.arg, i)),
                                 last.arg[i])
                        = (ToggleCount(StateBefore(last.arg, i), last.arg[i]) + 1) % U8
        /\ (\E c \in ToggleChars :
               Cardinality({i \in 1..Len(last.arg) :
                               last.arg[i] = c /\ ~LiveEscaped(last.arg, i)}) % 2 = 1)
              => crashed = "rejected"

\* a run of 257 pipes: the counter wrapped, and the template is rejected
C13_Witness ==
    /\ Validated
    /\ last.arg = Run(<<Pipe>>, U8 + 1)
    /\ crashed = "rejected"

\* a run of 256 asterisks is accepted, and a star inside inline code counts
C13_EvenReached ==
    /\ Validated
    /\ crashed = "none"
    /\ last.arg = Run(<<Star>>, U8)

(***************************************************************************)
(* C14: outside code contexts the validator accepts an unescaped { only    *)
(* when } follows it immediately, and an unescaped } only when it follows  *)
(* immediately an unescaped {; every other unescaped brace makes the       *)
(* validation fail.                                                        *)
(***************************************************************************)
C14_BracesOnlyAsPlaceholder ==
    Validated =>
        \A i \in 1..Len(last.arg) :
            (/\ ScanReaches(last.arg, i)
             /\ ~LiveEscaped(last.arg, i)
             /\ OutsideCode(last.arg, i)) =>
                /\ last.arg[i] = LBrace =>
                      (StepPasses(last.arg, i)
                          <=> (i < Len(last.arg) /\ last.arg[i + 1] = RBrace))
                /\ last.arg[i] = RBrace =>
                      (StepPasses(last.arg, i)
                          <=> (/\ i > 1
                               /\ last.arg[i - 1] = LBrace
                               /\ ~LiveEscaped(last.arg, i - 1)))

(***************************************************************************)
(* C15: markdown_format replaces the N-th placeholder of the template,     *)
(* counted from the left in the template, with the rendering of the N-th   *)
(* argument, for every N up to the smaller of the number of placeholders   *)
(* and the number of arguments; text inserted for an earlier argument is   *)
(* never the target of a later replacement.                                *)
(***************************************************************************)
C15_NthPlaceholderNthArgument ==
    (Substituted /\ crashed = "none" /\ ~last.out.t)
        => last.out.s = FilledInOrder(last.arg, Renderings)

(***************************************************************************)
(* C16: with fewer arguments than placeholders the surplus placeholders    *)
(* stay in the result as they are; with more arguments than placeholders   *)
(* the surplus arguments have no effect on the result; neither case ends   *)
(* in an error or a panic.                                                 *)
(***************************************************************************)
C16_SurplusLeftOrIgnored ==
    Substituted =>
        LET t == last.arg
            k == Cardinality(PlaceholderStarts(t))
            n == Len(last.args)
        IN /\ crashed = "none"
           /\ n < k => EndsWith(last.out.s, SubSeq(t, PlaceholderAt(t, n + 1), Len(t)))
           /\ n > k => last.out =
                         markdown_format(MarkdownString(t, FALSE), SubSeq(last.args, 1, k)).v

\* The text that stands in the result where the first placeholder of the
\* template stood.
FirstInserted ==
    LET t == last.arg
        p == PlaceholderAt(t, 1)
    IN SubSeq(last.out.s, p, Len(last.out.s) - (Len(t) - p - 1))

OneArgument ==
    /\ Substituted
    /\ crashed = "none"
    /\ Len(last.args) = 1
    /\ PlaceholderStarts(last.arg) # {}

(***************************************************************************)
(* C17: markdown_format renders an argument by its policy: of a plain text *)
(* or number the payload of escape(text) is inserted (the text with one    *)
(* backslash before each character to escape); of a MarkdownString, with   *)
(* @raw or without modifier, the payload as it is; of @code the fence, the *)
(* language, a newline, the text as it is, a newline and the fence.        *)
(***************************************************************************)
C17_RenderedByPolicy ==
    OneArgument =>
        LET a == last.args[1]
            t == last.arg
            r == FirstInserted
        IN /\ last.out.s = replace_range(t, PlaceholderAt(t, 1), r)
           /\ a.pol = "plain" => IsBackslashed(r, a.text)
           /\ a.pol \in {"raw", "md"} => r = a.md.s
           /\ a.pol = "code" =>
                 r = <<Backtick, Backtick, Backtick>> \o a.lang \o <<Newline>>
                         \o a.text \o <<Newline>> \o <<Backtick, Backtick, Backtick>>

\* A code argument whose text has characters that escape would change.
C17_Witness ==
    /\ OneArgument
    /\ last.args[1].pol = "code"
    /\ \E i \in 1..Len(last.args[1].text) : last.args[1].text[i] \in EscapedChars
    /\ last.args[1].lang # <<>>

\* A plain text with a character to escape, and a MarkdownString without
\* modifier whose payload has an unescaped star.
C17_PlainReached ==
    /\ OneArgument
    /\ last.args[1].pol = "plain"
    /\ \E i \in 1..Len(last.args[1].text) : last.args[1].text[i] \in EscapedChars

C17_MarkdownReached ==
    /\ OneArgument
    /\ last.args[1].pol = "md"
    /\ last.args[1].md.s = <<Star, LetterA, Star>>

C17_RawReached ==
    /\ OneArgument
    /\ last.args[1].pol = "raw"
    /\ last.args[1].md.s = <<Backslash, Star>>

(***************************************************************************)
(* C18: concatenation preserves well-formedness: when the payloads of a    *)
(* and of b are each accepted by validate_markdownv2_format and a + b, or  *)
(* a.push(&b), is not truncated, the payload of the result is accepted by  *)
(* validate_markdownv2_format.                                             *)
(***************************************************************************)
C18_ConcatenationKeepsAccepted ==
    (/\ last.op \in {"push", "add"}
     /\ validate_markdownv2_format(last.recv.s)
     /\ validate_markdownv2_format(last.other.s)
     /\ ~last.out.t)
        => validate_markdownv2_format(last.out.s)

(***************************************************************************)
(* C19: for every key k, decode_filename_to_key(encode_key_to_filename(k)) *)
(* is k, also for keys that contain '%' or a percent sequence such as      *)
(* "%2F"; and encode_key_to_filename is injective: no other key has the    *)
(* filename of k.                                                          *)
(***************************************************************************)
C19_RoundTripAndInjective ==
    /\ codec.step = "decoded" => codec.decoded = codec.key
    /\ codec.step # "none" => codec.filename = EncodeOfKeys[codec.key] /\ EncodeInjective

\* The key "%2F" has been encoded and decoded.
C19_Witness ==
    /\ codec.step = "decoded"
    /\ codec.key = <<Percent, Digit(2), Upper(15)>>
    /\ codec.filename # codec.key

\* A key with a leading dot and a later dot, and a key whose filename has a
\* plus sign after the percent sequence of '%'.
C19_DotsReached ==
    /\ codec.step = "decoded"
    /\ codec.key = <<Dot, LetterA, Dot>>
    /\ codec.filename = <<Percent, Digit(2), Upper(14), LetterA, Dot>>

C19_PlusReached ==
    /\ codec.step = "decoded"
    /\ codec.key = <<Percent, Plus, Digit(2)>>

\* The elements of a Vec.
Elements(v) == {v[i] : i \in 1..Len(v)}

(***************************************************************************)
(* C20: under any interleaving of concurrent calls InMemStore behaves as   *)
(* an atomic map from (chat, key) to value: what the store holds for every *)
(* chat and key is the value of the latest set not followed by a remove,   *)
(* else None, and get returns it; remove returns true exactly when the key *)
(* was present, and leaves it absent; keys(chat) is exactly the set of the *)
(* present keys of the chat; an operation on one chat changes nothing for  *)
(* another chat.                                                           *)
(***************************************************************************)
C20_AtomicMap ==
    /\ \A c \in Chats, k \in StoreKeys : store_get(data, c, k) = shadow[<<c, k>>]
    /\ reply.op = "get" => reply.ret = reply.want
    /\ reply.op = "set" => store_get(data, reply.chat, reply.key) = reply.value
    /\ reply.op = "remove" =>
          reply.ret = reply.want /\ store_get(data, reply.chat, reply.key) = None
    /\ reply.op = "keys" =>
          Elements(reply.ret) = reply.want /\ Len(reply.ret) = Cardinality(reply.want)

\* A get returns a value while the other task waits for the lock.
C20_Witness ==
    /\ reply.op = "get"
    /\ reply.ret \in Values
    /\ \E t \in Tasks : t # reply.task /\ task[t].pc = "waiting"

\* A get of a key finds nothing in one chat while the other chat holds the
\* same key.
C20_OtherChatReached ==
    /\ reply.op = "get"
    /\ reply.ret = None
    /\ \E c \in Chats : c # reply.chat /\ shadow[<<c, reply.key>>] # None

\* A remove of a present key, a remove of an absent one, and keys of a chat
\* with two keys.
C20_RemovedReached == reply.op = "remove" /\ reply.ret = TRUE

C20_RemoveAbsentReached ==
    reply.op = "remove" /\ reply.ret = FALSE /\ reply.chat \in DOMAIN data

C20_KeysReached == reply.op = "keys" /\ Len(reply.ret) = 2

\* The locals of the validator but for its memory of the previous byte.
Counted(st) == [st EXCEPT !.prev_char = 0, !.prev_was_escaping_backslash = FALSE]

(***************************************************************************)
(* C25: validate_markdownv2_format treats a character as escaped exactly   *)
(* when a maximal run of backslashes of odd length stands immediately      *)
(* before it: on such a character the turn of the loop changes no counter  *)
(* and no context and does not panic, on every other character it does     *)
(* what the match on the character says. Two backslashes and "!" are       *)
(* rejected, three backslashes and "!" are accepted.                       *)
(***************************************************************************)
C25_EscapedIffOddBackslashRun ==
    Validated =>
        /\ \A i \in 1..Len(last.arg) :
              ScanReaches(last.arg, i) =>
                  LET st == StateBefore(last.arg, i)
                  IN Counted(validate_step(last.arg, i, st)) =
                         IF LiveEscaped(last.arg, i)
                         THEN Counted(st)
                         ELSE Counted(validate_match(last.arg, i, st))
        /\ last.arg = <<Backslash, Backslash, Excl>> => crashed = "rejected"
        /\ last.arg = <<Backslash, Backslash, Backslash, Excl>> => crashed = "none"

\* Three backslashes and "!" were given to the validator, and accepted.
C25_Witness ==
    /\ Validated
    /\ last.arg = <<Backslash, Backslash, Backslash, Excl>>
    /\ crashed = "none"

C25_TwoBackslashesReached ==
    /\ Validated
    /\ last.arg = <<Backslash, Backslash, Excl>>
    /\ crashed = "rejected"

\* The positions of the unescaped occurrences of the byte c among the
\* first i bytes.
UnescapedUpTo(bytes, c, i) == {j \in 1..i : bytes[j] = c /\ ~LiveEscaped(bytes, j)}

\* No prefix has more unescaped "]" than unescaped "[", and the whole has
\* as many of the one as of the other.
BracketsBalanced(bytes) ==
    LET opened == UnescapedUpTo(bytes, LBracket, Len(bytes))
        closed == UnescapedUpTo(bytes, RBracket, Len(bytes))
    IN /\ Cardinality(opened) = Cardinality(closed)
       /\ \A i \in closed :
             Cardinality({j \in closed : j <= i}) <= Cardinality({j \in opened : j <= i})

(***************************************************************************)
(* C26: validate_markdownv2_format succeeds only if, counting unescaped    *)
(* "[" and "]", no prefix of the template has more "]" than "[" and the    *)
(* totals are equal at the end of the scan, for templates with any number  *)
(* of brackets (the counter is 8-bit and wraps).                           *)
(***************************************************************************)
C26_BracketsBalancedWhenAccepted ==
    (Validated /\ crashed = "none") => BracketsBalanced(last.arg)

\* The bytes at i, i + 1 and i + 2 are a run of exactly three unescaped
\* backticks: no backtick stands before or after them.
FenceAt(bytes, i) ==
    /\ i + 2 <= Len(bytes)
    /\ \A j \in i..(i + 2) : bytes[j] = Backtick
    /\ ~LiveEscaped(bytes, i)
    /\ i > 1 => bytes[i - 1] # Backtick
    /\ i + 3 <= Len(bytes) => bytes[i + 3] # Backtick

FenceRuns(bytes) == {i \in 1..Len(bytes) : FenceAt(bytes, i)}

\* The locals of the validator after the whole scan of the first i bytes.
StateAfter(bytes, i) == StateBefore(bytes, i + 1)

(***************************************************************************)
(* C27 as stated: a run of exactly three unescaped backticks flips the fenced-block  *)
(* context once and leaves the inline-code context as it was before the    *)
(* run. In a template with a fence opened and closed by two such runs the  *)
(* unescaped reserved characters between the runs are accepted, an         *)
(* unescaped reserved character after the closing run makes the validation *)
(* fail, and a template whose fence or inline code is open at the end is   *)
(* rejected.                                                               *)
(***************************************************************************)
C27_Original ==
    Validated =>
        LET t == last.arg
            runs == FenceRuns(t)
        IN /\ \A i \in runs :
                 ScanReaches(t, i + 3) =>
                     /\ StateAfter(t, i + 2).in_pre = ~StateBefore(t, i).in_pre
                     /\ StateAfter(t, i + 2).in_code = StateBefore(t, i).in_code
           /\ \A p, q \in runs :
                 (p < q /\ runs = {p, q} /\ ScanReaches(t, p) /\ ~StateBefore(t, p).in_pre) =>
                     /\ \A i \in (p + 3)..(q - 1) :
                           (t[i] \in SevenReserved /\ ScanReaches(t, i)) => StepPasses(t, i)
                     /\ (\E i \in (q + 3)..Len(t) : t[i] \in SevenReserved /\ ~LiveEscaped(t, i))
                           => crashed = "rejected"
           /\ LET end == StateAfter(t, Len(t))
              IN (~end.panicked /\ (end.in_pre \/ end.in_code)) => crashed = "rejected"

(***************************************************************************)
(* C27: a run of exactly three unescaped backticks flips the fenced-block  *)
(* context once and leaves the inline-code context as it was before the    *)
(* run. In a template with a fence opened and closed by two such runs the  *)
(* unescaped reserved characters between the runs are accepted; an         *)
(* unescaped reserved character after the closing run makes the validation *)
(* fail when the inline-code context is not open where it stands; and a    *)
(* template whose fence or inline code is open at the end is rejected.     *)
(***************************************************************************)
C27_FenceOpenBetweenRuns ==
    Validated =>
        LET t == last.arg
            runs == FenceRuns(t)
        IN /\ \A i \in runs :
                 ScanReaches(t, i + 3) =>
                     /\ StateAfter(t, i + 2).in_pre = ~StateBefore(t, i).in_pre
                     /\ StateAfter(t, i + 2).in_code = StateBefore(t, i).in_code
           /\ \A p, q \in runs :
                 (p < q /\ runs = {p, q} /\ ScanReaches(t, p) /\ ~StateBefore(t, p).in_pre) =>
                     /\ \A i \in (p + 3)..(q - 1) :
                           (t[i] \in SevenReserved /\ ScanReaches(t, i)) => StepPasses(t, i)
                     /\ (\E i \in (q + 3)..Len(t) :
                             /\ t[i] \in SevenReserved
                             /\ ~LiveEscaped(t, i)
                             /\ ScanReaches(t, i) => ~StateBefore(t, i).in_code)
                           => crashed = "rejected"
           /\ LET end == StateAfter(t, Len(t))
              IN (~end.panicked /\ (end.in_pre \/ end.in_code)) => crashed = "rejected"

\* A fence with an unescaped "!" inside is accepted.
C27_Witness ==
    /\ Validated
    /\ last.arg = CodeFence \o <<Excl>> \o CodeFence
    /\ crashed = "none"

\* The same with an unescaped "!" after the closing run is rejected, and so
\* is a fence that is not closed.
C27_AfterFenceReached ==
    /\ Validated
    /\ last.arg = CodeFence \o <<Excl>> \o CodeFence \o <<Excl>>
    /\ crashed = "rejected"

C27_OpenFenceReached ==
    /\ Validated
    /\ last.arg = CodeFence \o <<Excl>>
    /\ crashed = "rejected"

(***************************************************************************)
(* C29: from_validated_string, and therefore escape and markdown_format,   *)
(* never panics on a valid UTF-8 input longer than 4096 bytes: the cut at  *)
(* byte offset 3996 gives a well-formed string also when the offset falls  *)
(* inside a character of several bytes.                                    *)
(***************************************************************************)
C29_CutNeverPanics ==
    (last.op \in {"escape", "from_validated_string"}
        /\ Len(last.arg) > TELEGRAM_MAX_MESSAGE_LENGTH) => crashed # "panic"

(***************************************************************************)
(* C30: the truncated flag is never lost: when the operand of push or of   *)
(* + is truncated, or an argument of markdown_format given as a            *)
(* MarkdownString is truncated, the resulting MarkdownString has           *)
(* truncated = true.                                                       *)
(***************************************************************************)
C30_TruncatedFlagKept ==
    /\ (last.op \in {"push", "add"} /\ last.other.t) => last.out.t
    /\ (Returned("format")
          /\ last.args = <<"raw", "raw">>
          /\ (last.recv.t \/ last.other.t))
            => last.out.t


(***************************************************************************)
(* C21: with one caller and no I/O error, after every completed call a get *)
(* on the same FilesystemYamlStore and a get on a fresh one over the same  *)
(* directory both return the value of the last set of the key not followed *)
(* by a remove, None otherwise, and the cache holds for a key what its     *)
(* file holds.                                                             *)
(***************************************************************************)
\* get(chat_id, key) run from the state f with no other call under way.
FsGetNow(f, chat_id, key) ==
    LET found == load_from_disk(f.disk, chat_id, key)
        cache == IF is_loaded(f.loaded, chat_id, key) \/ found = None
                 THEN f.cache
                 ELSE store_set(f.cache, chat_id, key, found)
    IN store_get(cache, chat_id, key)

FsQuiet == \A t \in FsTasks : fsys.task[t].pc = "idle"

CacheAgreesWithDisk ==
    \A ck \in FsChats \X FsKeys :
        \/ store_get(fsys.cache, ck[1], ck[2]) = load_from_disk(fsys.disk, ck[1], ck[2])
        \/ /\ ~is_loaded(fsys.loaded, ck[1], ck[2])
           /\ store_get(fsys.cache, ck[1], ck[2]) = None

C21_SequentialSetRemoveGet ==
    FsQuiet =>
        /\ fsys.reply.op = "get" => fsys.reply.ret = fsys.reply.want
        /\ \A ck \in FsChats \X FsKeys :
              /\ FsGetNow(fsys, ck[1], ck[2]) = fsys.want[ck]
              /\ FsGetNow(NewFsys(fsys.disk), ck[1], ck[2]) = fsys.want[ck]
        /\ CacheAgreesWithDisk

\* A get returns the value that a set before it stored.
C21_Witness ==
    /\ FsQuiet
    /\ fsys.reply.op = "get"
    /\ fsys.reply.ret \in FsValues
    /\ fsys.calls >= 2

\* A remove took away the file that an earlier instance wrote.
C21_RemovedOldFile ==
    /\ FsQuiet
    /\ fsys.reply.op = "remove"
    /\ fsys.reply.ret = TRUE
    /\ fsys.reply.want = "v0"
    /\ fsys.disk = <<>>

\* A get returns None for a key that was set and then removed.
C21_GetAfterRemove ==
    /\ FsQuiet
    /\ fsys.reply.op = "get"
    /\ fsys.reply.ret = None
    /\ is_loaded(fsys.loaded, fsys.reply.chat, fsys.reply.key)
    /\ fsys.calls = MaxFsCalls
    /\ fsys.want = [ck \in FsChats \X FsKeys |-> None]
    /\ fsys.cache # EmptyMap


(***************************************************************************)
(* C22: FilesystemYamlStore::keys(chat) returns exactly the keys of the    *)
(* chat for which get is Some, each as the key string given to set.        *)
(***************************************************************************)
C22_KeysAreTheKeysSet ==
    (FsQuiet /\ fsys.reply.op = "keys") =>
        Elements(fsys.reply.ret) = {k \in FsKeys : fsys.want[<<fsys.reply.chat, k>>] # None}


(***************************************************************************)
(* C28: with concurrent callers of a FilesystemYamlStore, once a           *)
(* set(chat, key, v) has returned and no set or remove of the key was in   *)
(* progress then or has begun since, every get(chat, key) that returns     *)
(* yields Some(v), also a get that began its lazy load before the set.     *)
(***************************************************************************)
C28_GetSeesReturnedSet ==
    (fsys.reply.op = "get" /\ fsys.reply.settled # None) =>
        fsys.reply.ret = fsys.reply.settled


(***************************************************************************)
(* C23: unpack_callback_data of the callback data that pack_callback_data  *)
(* put on a button returns the data d the button was given, whatever the   *)
(* storage holds: from the storage when d is longer than 64 bytes or not   *)
(* ASCII, as itself otherwise.                                             *)
(***************************************************************************)
C23_UnpackReturnsData ==
    cbs.last.op = "unpack" =>
        cbs.last.ret = cbs.last.rows[cbs.last.row][cbs.last.col].data

(***************************************************************************)
(* C24: after pack_callback_data for message m the entries of m in the     *)
(* storage of the chat are exactly those this call made, one for each      *)
(* button whose data was stored, each under a reference of its own, and    *)
(* the entries of every other message are as they were.                    *)
(***************************************************************************)
\* The places of the buttons whose data the call had to store.
StoredButtons ==
    {rc \in {p \in (1..Len(cbs.last.rows)) \X (1..MaxButtons) : p[2] <= Len(cbs.last.rows[p[1]])} :
        /\ cbs.last.rows[rc[1]][rc[2]].kind = "Callback"
        /\ needs_storage(cbs.last.rows[rc[1]][rc[2]].data)}

\* The references a keyboard of message m can have.
ReferencesOf(m) == {key_to_string(CallbackDataKey(CbChatId, m, p)) : p \in 0..MaxButtons}

C24_PackReplacesEntriesOfMessage ==
    cbs.last.op = "pack" =>
        LET mine == ReferencesOf(cbs.last.message_id)
            made == {cbs.last.markup[rc[1]][rc[2]].data : rc \in StoredButtons}
        IN /\ store_keys(cbs.store, CbChatId) \cap mine = made
           /\ Cardinality(made) = Cardinality(StoredButtons)
           /\ \A rc \in StoredButtons :
                 store_get(cbs.store, CbChatId, cbs.last.markup[rc[1]][rc[2]].data)
                     = cbs.last.rows[rc[1]][rc[2]].data
           /\ store_keys(cbs.store, CbChatId) \ mine = store_keys(cbs.last.before, CbChatId) \ mine
           /\ \A k \in store_keys(cbs.last.before, CbChatId) \ mine :
                 store_get(cbs.store, CbChatId, k) = store_get(cbs.last.before, CbChatId, k)

\* Message 1 gets a keyboard with two stored buttons while the storage
\* holds an older entry of message 1 and the entries of message 2.
C24_Witness ==
    /\ cbs.last.op = "pack"
    /\ cbs.last.message_id = 1
    /\ Cardinality(StoredButtons) = 2
    /\ Cardinality(store_keys(cbs.last.before, CbChatId)) = 3
    /\ Cardinality(store_keys(cbs.store, CbChatId)) = 4

\* An older entry of the message is gone after a keyboard with nothing to
\* store.
C24_OldEntryCleared ==
    /\ cbs.last.op = "pack"
    /\ cbs.last.message_id = 2
    /\ StoredButtons = {}
    /\ Cardinality(store_keys(cbs.last.before, CbChatId)) = 3
    /\ Cardinality(store_keys(cbs.store, CbChatId)) = 1

====
